---- MODULE Spec2Model ----
(***************************************************************************)
(* ClaudeBar: the API client (internal/api/client.go), the authentication  *)
(* manager (internal/api/auth.go) and the polling loop                     *)
(* (internal/app/app.go) as state machines.                                *)
(*                                                                         *)
(* The specifications share the variables:                                 *)
(*   SpecClient   single calls of Client.FetchOrganizations / FetchUsage   *)
(*                against a server that answers arbitrarily;               *)
(*   SpecAuth     AuthManager.Initialize, SetManualSessionKey and          *)
(*                RefreshFromBrowser, one call at a time;                  *)
(*   SpecLoop     the polling goroutine alone (refreshLoop -> fetchUsage); *)
(*   SpecTicks    refreshLoop with idle readings, the stop signal and      *)
(*                intervals below the floor;                               *)
(*   SpecSettings refreshLoop with a session key entered in the settings   *)
(*                dialog;                                                  *)
(*   SpecStore    the same calls with configuration writes that fail;      *)
(*   SpecSave     refreshLoop with saves of the settings dialog;           *)
(*   SpecTray     the tray menu, the snap hotkeys and the shutdown;        *)
(*   SpecNotify   App.checkAndNotify over sequences of usage readings;     *)
(*   SpecThresholds  App.highestCrossedThreshold on its own;               *)
(*   SpecBackoff  the callers of fetchUsage after a rate-limited poll;     *)
(*   Spec         the polling goroutine together with the other callers of *)
(*                App.fetchUsage (refreshNow, authenticate, settings save).*)
(***************************************************************************)
EXTENDS Integers, Sequences, FiniteSets, TLC

(***************************************************************************)
(* Program constants                                                       *)
(***************************************************************************)
\* client.go:121 and :199   for attempt := 0; attempt < 2; attempt++
RetryAttempts == 2
\* client.go:124 and :202   time.Sleep(2 * time.Second)
RetryDelaySec == 2
\* app.go:250   30 * (1 << min(errCount-1, 3))
BackoffBaseSec == 30
BackoffMaxShift == 3
\* app.go:266   if errCount >= 3
TransientThreshold == 3

(***************************************************************************)
(* Bounds of the model                                                     *)
(***************************************************************************)
\* consecutive failed polls the model follows before it stops counting
MaxErrors == 5
\* clicks on "Quit" the model follows
MaxQuits == 2

(***************************************************************************)
(* Errors (client.go:23-30, auth.go:13-15).  An error is a record so that  *)
(* the formatted errors (fmt.Errorf) carry the status they were built from.*)
(***************************************************************************)
Err(n) == [name |-> n, status |-> 0]
nil == Err("nil")
ErrNoSessionKey == Err("ErrNoSessionKey")
ErrNoOrgID == Err("ErrNoOrgID")
ErrUnauthorized == Err("ErrUnauthorized")
ErrSessionExpired == Err("ErrSessionExpired")
ErrRateLimited == Err("ErrRateLimited")
ErrAPIUnavailable == Err("ErrAPIUnavailable")
ErrAuthFailed == Err("ErrAuthFailed")
\* the transport's own error: httpClient.Do or io.ReadAll failed
ErrTransport == Err("transport")
\* json.Unmarshal's error / its wrapping by fetchUsageOnce
ErrJSON == Err("json")
ErrParseUsage == Err("failed to parse usage response")
\* fmt.Errorf("unexpected status code: %d") / fmt.Errorf("usage endpoint returned: %d")
ErrOrgStatus(s) == [name |-> "unexpected status code", status |-> s]
ErrUsageStatus(s) == [name |-> "usage endpoint returned", status |-> s]
\* errors.New("no organizations found")
ErrNoOrgs == Err("no organizations found")

(***************************************************************************)
(* The server.  A response is the HTTP status (0: the request failed in    *)
(* the transport) and the kind of body it carries.                         *)
(***************************************************************************)
Bodies == {"garbage", "err_session_invalid", "err_other", "data"}
OrgLists == {<<>>, <<"o1">>, <<"o2", "o1">>}
Utils == {10, 80}
\* client.go:456   time.Time{}, the zero time
ZeroTime == 0
\* timestamps a response may carry in resets_at, and the instants they denote
RFC3339 == ("2025-06-01T05:00:00Z" :> 5) @@ ("2025-06-08T00:00:00Z" :> 8)

\* client.go:405-408   a metric of the response; client.go:397-402: each of the
\* four is a pointer, nil when the response leaves the key out
Metric(u, resetsAt) == [present |-> TRUE, utilization |-> u, resetsAt |-> resetsAt]
NoMetric == [present |-> FALSE, utilization |-> 0, resetsAt |-> ""]
UsageAPIResponse(five, seven, opus, sonnet) ==
    [fiveHour |-> five, sevenDay |-> seven, sevenDayOpus |-> opus, sevenDaySonnet |-> sonnet]
EmptyResponse == UsageAPIResponse(NoMetric, NoMetric, NoMetric, NoMetric)
\* the usual response: the session and the weekly metric
Reading(u, w) ==
    UsageAPIResponse(Metric(u, "2025-06-01T05:00:00Z"), Metric(w, "2025-06-08T00:00:00Z"),
                     NoMetric, NoMetric)
UsagePayloads ==
    {Reading(u, w) : u \in Utils, w \in Utils}
    \cup {UsageAPIResponse(Metric(80, "soon"), NoMetric, NoMetric, NoMetric),
          UsageAPIResponse(Metric(10, ""), Metric(10, "2025-06-08T00:00:00Z"),
                           Metric(80, "2025-06-08T00:00:00Z"),
                           Metric(10, "2025-06-08T00:00:00Z"))}

\* client.go:454-475   the zero time for an empty or unparsable string
parseTime(str) ==
    IF str = "" THEN ZeroTime
    ELSE IF str \in DOMAIN RFC3339 THEN RFC3339[str]
    ELSE ZeroTime

\* client.go:337-342   the zero UsageStat
ZeroStat == [utilization |-> 0, resetsAt |-> ZeroTime, label |-> ""]
\* client.go:418-448   one metric of the response converted, or left zero
UsageStat(metric, label) ==
    IF metric.present
    THEN [utilization |-> metric.utilization, resetsAt |-> parseTime(metric.resetsAt),
          label |-> label]
    ELSE ZeroStat
\* client.go:412-451   a fresh UsageData (LastUpdated, a clock reading nothing
\* reads back, is left out)
ToUsageData(r) ==
    [fiveHour |-> UsageStat(r.fiveHour, "5-Hour"),
     sevenDay |-> UsageStat(r.sevenDay, "Weekly"),
     sevenDayOpus |-> UsageStat(r.sevenDayOpus, "Opus"),
     sevenDaySonnet |-> UsageStat(r.sevenDaySonnet, "Sonnet")]
\* the value standing for the nil *UsageData of a failed call
NoPayload == [fiveHour |-> ZeroStat, sevenDay |-> ZeroStat, sevenDayOpus |-> ZeroStat,
              sevenDaySonnet |-> ZeroStat]

Shapes ==
    {[status |-> 0, body |-> "garbage"]}
    \cup {[status |-> 200, body |-> b] : b \in {"garbage", "err_other", "data"}}
    \cup {[status |-> s, body |-> b] : s \in {401, 403},
                                      b \in {"garbage", "err_session_invalid", "err_other"}}
    \cup {[status |-> s, body |-> "garbage"] : s \in {404, 429, 500, 503}}

\* only a 200 with a decodable body carries a payload the client reads
OrgResps ==
    {[status |-> sh.status, body |-> sh.body, orgs |-> <<>>] : sh \in Shapes}
    \cup {[status |-> 200, body |-> "data", orgs |-> o] : o \in OrgLists}
UsageResps ==
    {[status |-> sh.status, body |-> sh.body, usage |-> EmptyResponse] : sh \in Shapes}
    \cup {[status |-> 200, body |-> "data", usage |-> u] : u \in UsagePayloads}

(***************************************************************************)
(* api.Client                                                              *)
(***************************************************************************)
\* client.go:283-289
parseAPIError(body) ==
    CASE body = "err_session_invalid" -> "account_session_invalid"
      [] body = "err_other" -> "permission_error"
      [] OTHER -> ""

\* client.go:134 / :212   the errors the retry loop does not retry
IsAuthErrNever(err) == FALSE
IsAuthErr(err) == err = ErrUnauthorized \/ err = ErrSessionExpired

\* client.go:142-180
fetchOrganizationsOnce(resp) ==
    IF resp.status = 0 THEN [err |-> ErrTransport, orgs |-> <<>>]
    ELSE IF resp.status = 401 \/ resp.status = 403 THEN
        IF parseAPIError(resp.body) = "account_session_invalid"
        THEN [err |-> ErrSessionExpired, orgs |-> <<>>]
        ELSE [err |-> ErrUnauthorized, orgs |-> <<>>]
    ELSE IF resp.status # 200 THEN [err |-> ErrOrgStatus(resp.status), orgs |-> <<>>]
    \* a JSON array decodes into []OrganizationInfo; an object or garbage does not
    ELSE IF resp.body # "data" THEN [err |-> ErrJSON, orgs |-> <<>>]
    ELSE [err |-> nil, orgs |-> resp.orgs]

\* fetchUsageOnce taking only 401 for an authentication failure
fetchUsageOnce401Only(resp) ==
    IF resp.status = 0 THEN [err |-> ErrTransport, usage |-> NoPayload]
    ELSE IF resp.status = 401 THEN
        IF parseAPIError(resp.body) = "account_session_invalid"
        THEN [err |-> ErrSessionExpired, usage |-> NoPayload]
        ELSE [err |-> ErrUnauthorized, usage |-> NoPayload]
    ELSE IF resp.status = 429 THEN [err |-> ErrRateLimited, usage |-> NoPayload]
    ELSE IF resp.status >= 500 THEN [err |-> ErrAPIUnavailable, usage |-> NoPayload]
    ELSE IF resp.status # 200 THEN [err |-> ErrUsageStatus(resp.status), usage |-> NoPayload]
    ELSE IF resp.body = "garbage" THEN [err |-> ErrParseUsage, usage |-> NoPayload]
    ELSE IF resp.body # "data" THEN [err |-> nil, usage |-> ToUsageData(EmptyResponse)]
    ELSE [err |-> nil, usage |-> ToUsageData(resp.usage)]

\* client.go:221-279
fetchUsageOnce(resp) ==
    IF resp.status = 0 THEN [err |-> ErrTransport, usage |-> NoPayload]
    ELSE IF resp.status = 401 \/ resp.status = 403 THEN
        IF parseAPIError(resp.body) # ""
           /\ parseAPIError(resp.body) = "account_session_invalid"
        THEN [err |-> ErrSessionExpired, usage |-> NoPayload]
        ELSE [err |-> ErrUnauthorized, usage |-> NoPayload]
    ELSE IF resp.status = 429 THEN [err |-> ErrRateLimited, usage |-> NoPayload]
    ELSE IF resp.status >= 500 THEN [err |-> ErrAPIUnavailable, usage |-> NoPayload]
    ELSE IF resp.status # 200 THEN [err |-> ErrUsageStatus(resp.status), usage |-> NoPayload]
    ELSE IF resp.body = "garbage" THEN [err |-> ErrParseUsage, usage |-> NoPayload]
    \* a JSON object without the metric keys decodes to the zero response
    ELSE IF resp.body # "data" THEN [err |-> nil, usage |-> ToUsageData(EmptyResponse)]
    ELSE [err |-> nil, usage |-> ToUsageData(resp.usage)]

\* The result of a client call: what it returns, the HTTP requests it sent and
\* the delays it slept, in order.
CallResult(err, orgs, usage, requests, sleeps) ==
    [err |-> err, orgs |-> orgs, usage |-> usage, requests |-> requests, sleeps |-> sleeps]

\* client.go:120-139   the loop of FetchOrganizations; resps[i] answers the i-th request
RECURSIVE FetchOrganizationsLoop(_, _, _, _, _)
FetchOrganizationsLoop(attempt, lastErr, resps, requests, sleeps) ==
    IF ~(attempt < RetryAttempts) THEN CallResult(lastErr, <<>>, NoPayload, requests, sleeps)
    ELSE LET slept == IF attempt > 0 THEN Append(sleeps, RetryDelaySec) ELSE sleeps
             r == fetchOrganizationsOnce(resps[attempt + 1])
         IN  IF r.err = nil THEN CallResult(nil, r.orgs, NoPayload, requests + 1, slept)
             ELSE IF IsAuthErr(r.err)
                  THEN CallResult(r.err, <<>>, NoPayload, requests + 1, slept)
             ELSE FetchOrganizationsLoop(attempt + 1, r.err, resps, requests + 1, slept)

\* client.go:111-140
FetchOrganizations(key, resps) ==
    IF key = "" THEN CallResult(ErrNoSessionKey, <<>>, NoPayload, 0, <<>>)
    ELSE FetchOrganizationsLoop(0, nil, resps, 0, <<>>)

\* client.go:198-218   the loop of FetchUsage
RECURSIVE FetchUsageLoop(_, _, _, _, _)
FetchUsageLoop(attempt, lastErr, resps, requests, sleeps) ==
    IF ~(attempt < RetryAttempts) THEN CallResult(lastErr, <<>>, NoPayload, requests, sleeps)
    ELSE LET slept == IF attempt > 0 THEN Append(sleeps, RetryDelaySec) ELSE sleeps
             r == fetchUsageOnce(resps[attempt + 1])
         IN  IF r.err = nil THEN CallResult(nil, <<>>, r.usage, requests + 1, slept)
             ELSE IF IsAuthErr(r.err)
                  THEN CallResult(r.err, <<>>, NoPayload, requests + 1, slept)
             ELSE FetchUsageLoop(attempt + 1, r.err, resps, requests + 1, slept)

\* FetchUsage checking the organization ID before the session key
FetchUsageOrgFirst(key, org, resps) ==
    IF org = "" THEN CallResult(ErrNoOrgID, <<>>, NoPayload, 0, <<>>)
    ELSE IF key = "" THEN CallResult(ErrNoSessionKey, <<>>, NoPayload, 0, <<>>)
    ELSE FetchUsageLoop(0, nil, resps, 0, <<>>)

\* client.go:184-219
FetchUsage(key, org, resps) ==
    IF key = "" THEN CallResult(ErrNoSessionKey, <<>>, NoPayload, 0, <<>>)
    ELSE IF org = "" THEN CallResult(ErrNoOrgID, <<>>, NoPayload, 0, <<>>)
    ELSE FetchUsageLoop(0, nil, resps, 0, <<>>)

\* client.go:104-108
HasCredentials(key, org) == key # "" /\ org # ""

(***************************************************************************)
(* browser.CookieExtractor and the companion CLI's credential file         *)
(***************************************************************************)
ErrNoCookieFound == Err("ErrNoCookieFound")
ErrDecryptFailed == Err("ErrDecryptFailed")

\* what one browser's cookie store yields: extractFromChromium / extractFromFirefox
BrowserResults ==
    {[key |-> "kBrowser", err |-> nil],
     [key |-> "", err |-> nil],
     [key |-> "", err |-> ErrNoCookieFound],
     [key |-> "", err |-> ErrDecryptFailed]}

\* cookies.go:40-67
ExtractSessionKey(chromium, firefox) ==
    IF chromium.err = nil /\ chromium.key # "" THEN [key |-> chromium.key, err |-> nil]
    ELSE IF firefox.err = nil /\ firefox.key # "" THEN [key |-> firefox.key, err |-> nil]
    ELSE [key |-> "", err |-> ErrNoCookieFound]

\* <<the Chromium-family store, the Firefox store>> as the operations are tried with
ExtractInputs ==
    {<<[key |-> "kBrowser", err |-> nil], [key |-> "", err |-> ErrNoCookieFound]>>,
     <<[key |-> "", err |-> ErrDecryptFailed], [key |-> "kBrowser", err |-> nil]>>,
     <<[key |-> "", err |-> ErrDecryptFailed], [key |-> "", err |-> nil]>>,
     <<[key |-> "", err |-> ErrNoCookieFound], [key |-> "", err |-> ErrNoCookieFound]>>}

\* ~/.claude/.credentials.json as tryClaudeCodeCredentials finds it
ErrCliRead == Err("read credentials file")
ErrCliNoOrg == Err("no organization UUID in Claude Code credentials")
CliFiles ==
    {[kind |-> "unreadable", accessToken |-> "", orgUUID |-> ""],
     [kind |-> "badjson", accessToken |-> "", orgUUID |-> ""],
     [kind |-> "ok", accessToken |-> "sk-ant-oat01", orgUUID |-> ""],
     [kind |-> "ok", accessToken |-> "sk-ant-oat01", orgUUID |-> "oCli"]}

(***************************************************************************)
(* api.AuthManager.  The operations work on the credentials: the client's  *)
(* two fields and the configuration's two fields.  A step returns the new  *)
(* credentials, its error and the external calls it made, in order.        *)
(***************************************************************************)
\* config.Config (part_004).  The credentials carry the configuration file's two
\* fields (disk) and the outcomes of the next calls of os.WriteFile (writes: TRUE,
\* the file is written; an empty sequence: every write goes through).
ErrWrite == Err("write config")

\* part_004:141-156   Save writes the whole configuration
Save(st) ==
    IF st.writes = <<>> \/ Head(st.writes)
    THEN [st |-> [st EXCEPT !.disk = [sessionKey |-> st.cfgSessionKey,
                                      organizationID |-> st.cfgOrganizationID],
                            !.writes = IF @ = <<>> THEN @ ELSE Tail(@)],
          err |-> nil]
    ELSE [st |-> [st EXCEPT !.writes = Tail(@)], err |-> ErrWrite]

\* part_004:159-162
ConfigSetSessionKey(st, key) == Save([st EXCEPT !.cfgSessionKey = key])
\* part_004:165-168
ConfigSetOrganizationID(st, id) == Save([st EXCEPT !.cfgOrganizationID = id])

\* auth.go:86-88, :117-119, :143-145, :159-161, :179-181   what the AuthManager
\* makes of the error of a write: it logs a warning and goes on
WarningReturned(err) == err
Warning(err) == nil

\* auth.go:97-125
tryClaudeCodeCredentialsAsKey(st, cli) ==
    IF cli.kind # "ok" THEN [st |-> st, err |-> ErrCliRead]
    ELSE [st |-> [st EXCEPT !.sessionKey = cli.accessToken,
                            !.organizationID = IF cli.orgUUID # "" THEN cli.orgUUID ELSE @],
          err |-> nil]
tryClaudeCodeCredentials(st, cli) ==
    IF cli.kind = "unreadable" THEN [st |-> st, err |-> ErrCliRead]
    ELSE IF cli.kind = "badjson" THEN [st |-> st, err |-> ErrJSON]
    ELSE IF cli.orgUUID # ""
         THEN LET w == ConfigSetOrganizationID([st EXCEPT !.organizationID = cli.orgUUID],
                                               cli.orgUUID)
              IN  [st |-> w.st, err |-> Warning(w.err)]
    ELSE [st |-> st, err |-> ErrCliNoOrg]

\* verifyAndFetchOrg taking the last organization of the list
verifyAndFetchOrgLast(st, resps) ==
    LET fo == FetchOrganizations(st.sessionKey, resps)
    IN  IF fo.err # nil THEN [st |-> st, err |-> fo.err]
        ELSE IF Len(fo.orgs) = 0 THEN [st |-> st, err |-> ErrNoOrgs]
        ELSE LET orgID == fo.orgs[Len(fo.orgs)]
                 w == ConfigSetOrganizationID([st EXCEPT !.organizationID = orgID], orgID)
             IN  [st |-> w.st, err |-> Warning(w.err)]

\* auth.go:128-148
verifyAndFetchOrg(st, resps) ==
    LET fo == FetchOrganizations(st.sessionKey, resps)
    IN  IF fo.err # nil THEN [st |-> st, err |-> fo.err]
        ELSE IF Len(fo.orgs) = 0 THEN [st |-> st, err |-> ErrNoOrgs]
        ELSE LET orgID == fo.orgs[1]
                 w == ConfigSetOrganizationID([st EXCEPT !.organizationID = orgID], orgID)
             IN  [st |-> w.st, err |-> Warning(w.err)]

NoDisk == [sessionKey |-> "", organizationID |-> ""]
Creds0 == [sessionKey |-> "", organizationID |-> "",
           cfgSessionKey |-> "", cfgOrganizationID |-> "",
           disk |-> NoDisk, writes |-> <<>>]
NoCliFile == [kind |-> "none", accessToken |-> "", orgUUID |-> ""]

\* What a call of the AuthManager did: the credentials it left, its return value,
\* the external calls it made in order, the errors of its two verifications
\* (nil: passed or not run), of the extractor, and the credentials around the
\* reading of the CLI file.
AuthResult(st, ret, log, verr1, verr2, exterr, cliPre, cliPost) ==
    [st |-> st, ret |-> ret, log |-> log, verr1 |-> verr1, verr2 |-> verr2,
     exterr |-> exterr, cliPre |-> cliPre, cliPost |-> cliPost]

\* auth.go:57   the saved key is done with only when it verified
SavedKeyVerifiedAlways(hasSaved, err) == hasSaved
SavedKeyVerified(hasSaved, err) == hasSaved /\ err = nil

\* auth.go:72-76   what Initialize returns when the extractor failed with err
ExtractFailureAsIs(err) == err
ExtractFailure(err) == ErrAuthFailed

\* auth.go:48-92
Initialize(st, in) ==
    LET hasSaved == st.cfgSessionKey # ""
        s1 == IF hasSaved
              THEN [st EXCEPT !.sessionKey = st.cfgSessionKey,
                              !.organizationID =
                                  IF st.cfgOrganizationID # "" THEN st.cfgOrganizationID ELSE @]
              ELSE st
        v1 == IF hasSaved THEN verifyAndFetchOrg(s1, in.resps1) ELSE [st |-> st, err |-> nil]
        log1 == IF hasSaved THEN <<"FetchOrganizations">> ELSE <<>>
    IN  IF SavedKeyVerified(hasSaved, v1.err)
        THEN AuthResult(v1.st, nil, log1, v1.err, nil, nil, v1.st, v1.st)
        ELSE
        LET c == tryClaudeCodeCredentials(v1.st, in.cli)
            x == ExtractSessionKey(in.ext[1], in.ext[2])
            log2 == log1 \o <<"ReadCLIFile", "ExtractSessionKey">>
        IN  IF x.err # nil
            THEN AuthResult(c.st, ExtractFailure(x.err), log2, v1.err, nil, x.err, v1.st, c.st)
            ELSE
            LET s3 == [c.st EXCEPT !.sessionKey = x.key]
                v2 == verifyAndFetchOrg(s3, in.resps2)
                log3 == log2 \o <<"FetchOrganizations">>
            IN  IF v2.err # nil
                THEN AuthResult(v2.st, v2.err, log3, v1.err, v2.err, nil, v1.st, c.st)
                ELSE LET w == ConfigSetSessionKey(v2.st, x.key)
                     IN  AuthResult(w.st, Warning(w.err), log3, v1.err, nil, nil, v1.st, c.st)

\* auth.go:155   the roll-back of a key that failed verification
RollBackKeep(st) == st
RollBack(st) == [st EXCEPT !.sessionKey = ""]

\* auth.go:151-164
SetManualSessionKey(st, key, resps) ==
    LET s1 == [st EXCEPT !.sessionKey = key]
        v == verifyAndFetchOrg(s1, resps)
    IN  IF v.err # nil
        THEN AuthResult(RollBack(v.st), v.err, <<"FetchOrganizations">>,
                        v.err, nil, nil, st, st)
        ELSE LET w == ConfigSetSessionKey(v.st, key)
             IN  AuthResult(w.st, Warning(w.err), <<"FetchOrganizations">>,
                            nil, nil, nil, st, st)

\* auth.go:167-184
RefreshFromBrowser(st, ext, resps) ==
    LET x == ExtractSessionKey(ext[1], ext[2])
    IN  IF x.err # nil
        THEN AuthResult(st, x.err, <<"ExtractSessionKey">>, nil, nil, x.err, st, st)
        ELSE
        LET s1 == [st EXCEPT !.sessionKey = x.key]
            v == verifyAndFetchOrg(s1, resps)
            log == <<"ExtractSessionKey", "FetchOrganizations">>
        IN  IF v.err # nil
            THEN AuthResult(v.st, v.err, log, v.err, nil, nil, st, st)
            ELSE LET w == ConfigSetSessionKey(v.st, x.key)
                 IN  AuthResult(w.st, Warning(w.err), log, nil, nil, nil, st, st)

\* auth.go:187-189
IsAuthenticated(st) == HasCredentials(st.sessionKey, st.organizationID)

(***************************************************************************)
(* State                                                                   *)
(***************************************************************************)
VARIABLES
    sessionKey,         \* Client.sessionKey
    organizationID,     \* Client.organizationID
    lastUsage,          \* Client.lastUsage
    lastFetch,          \* Client.lastFetch
    cfgSessionKey,      \* config.Config.SessionKey
    cfgOrganizationID,  \* config.Config.OrganizationID
    disk,               \* the session key and organization ID in the configuration file
    call,               \* the last call of the client made on its own, with the answers it got
    auth,               \* the last call of the AuthManager, with what it did
    consecutiveErrors,  \* App.consecutiveErrors
    rateLimitBackoff,   \* App.rateLimitBackoff, in seconds
    status,             \* the overlay's status text, as of the last update handed to fyne.Do
    pc,                 \* where each invocation of App.fetchUsage stands
    loc,                \* each invocation's caller, local variables and what it did so far
    authFetched,        \* App.authenticate has made its one call of fetchUsage
    polls,              \* the polls that failed since the last successful one, by class
    started,            \* the invocations of fetchUsage started so far, up to MaxStarts
    limited,            \* the backoff stored last: who read it and who is sleeping it
    notificationsEnabled,   \* config.NotificationsEnabled
    alertThresholds,        \* config.AlertThresholds
    lastSessionThreshold,   \* App.lastSessionThreshold
    lastWeeklyThreshold,    \* App.lastWeeklyThreshold
    notified,           \* the last run of checkAndNotify: what it saw and what it sent
    sent,               \* the last notifications sent, up to MaxSent
    crossing,           \* the last call of highestCrossedThreshold made on its own
    refreshInterval,    \* config.RefreshInterval, in seconds
    loopNormal,         \* refreshLoop's normalInterval, in seconds
    wasIdle,            \* refreshLoop's wasIdle
    refreshTimer,       \* the period App.refreshTimer was last set to, in seconds
    tick,               \* the last tick of refreshLoop: its reading and what it did
    exited,             \* refreshLoop has returned
    running,            \* App.running
    stopChan,           \* App.stopChan is closed
    closes,             \* how many times close(a.stopChan) ran
    shutdowns,          \* how many times App.shutdown was called
    hotkeyMgr,          \* hotkeys.Manager: running, the platform listener, its stops
    eventLoop,          \* fyneApp.Run: running, quitting, returned, cleaned
    ui                  \* the overlay window, the tray's flag, the overlay settings
                        \* of the configuration and of its file

clientVars == <<sessionKey, organizationID, lastUsage, lastFetch>>
cfgVars == <<cfgSessionKey, cfgOrganizationID, disk>>
callerVars == <<authFetched, started, limited>>
notifyVars ==
    <<notificationsEnabled, alertThresholds, lastSessionThreshold, lastWeeklyThreshold,
      notified, sent, crossing>>
loopVars == <<refreshInterval, loopNormal, wasIdle, refreshTimer, tick, exited>>
lifeVars == <<running, stopChan, closes, shutdowns, hotkeyMgr, eventLoop, ui>>
appVars ==
    <<consecutiveErrors, rateLimitBackoff, status, pc, loc, authFetched, polls, started,
      limited, notifyVars, loopVars, lifeVars>>
vars == <<sessionKey, organizationID, lastUsage, lastFetch,
         cfgSessionKey, cfgOrganizationID, disk, call,
          auth,
          consecutiveErrors, rateLimitBackoff, status, pc, loc, authFetched, polls, started,
          limited, notifyVars, loopVars, lifeVars>>

SessionKeys == {"", "kSaved", "kBrowser", "kManual"}
OrgIDs == {"", "oSaved", "oCli", "o1", "o2"}

\* the credentials: the client's two fields, the configuration's two fields and
\* its file, which takes every write
Creds == [sessionKey |-> sessionKey, organizationID |-> organizationID,
          cfgSessionKey |-> cfgSessionKey, cfgOrganizationID |-> cfgOrganizationID,
          disk |-> disk, writes |-> <<>>]
\* the configuration as Load left it
Loaded == disk = [sessionKey |-> cfgSessionKey, organizationID |-> cfgOrganizationID]

NoUsage == [set |-> FALSE, usage |-> NoPayload]
\* client.go:273-276   the cache after a successful fetch read the clock at `now`
\* (and a cache that kept, for a metric the response left out, the stat it had)
cacheUsageMerged(cache, usage, now) ==
    [lastUsage |->
        [set |-> TRUE,
         usage |-> [m \in DOMAIN usage |->
                      IF usage[m].label = "" /\ cache.lastUsage.set
                      THEN cache.lastUsage.usage[m] ELSE usage[m]]],
     lastFetch |-> now]
cacheUsage(cache, usage, now) ==
    [lastUsage |-> [set |-> TRUE, usage |-> usage], lastFetch |-> now]
NoCall ==
    [method |-> "none", resps |-> <<>>, res |-> CallResult(nil, <<>>, NoPayload, 0, <<>>),
     before |-> [lastUsage |-> NoUsage, lastFetch |-> ZeroTime], now |-> ZeroTime]
NoAuthIn == [resps1 |-> <<>>, cli |-> NoCliFile, ext |-> <<>>, resps2 |-> <<>>]
NoAuth == [op |-> "none", arg |-> "", pre |-> Creds0, in |-> NoAuthIn,
           res |-> AuthResult(Creds0, nil, <<>>, nil, nil, nil, Creds0, Creds0)]

\* invocations of fetchUsage the model follows at a time
MaxInvocations == 2
\* invocations of fetchUsage that the callers together start in a behaviour of Spec
MaxStarts == 2
Slots == 1..MaxInvocations

StatusNone == ""
\* The local variables of an invocation (backoff, err, errCount; key and org are
\* FetchUsage's snapshot of the credentials) and what it did: the sleep it took,
\* its calls of FetchUsage and RefreshFromBrowser, RefreshFromBrowser's error
\* and the last status text it set; afterKey: it started after SetManualSessionKey
\* had succeeded.
NoLocals ==
    [caller |-> "none", backoff |-> 0, key |-> "", org |-> "", err |-> nil, errCount |-> 0,
     slept |-> 0, fetches |-> 0, refreshes |-> 0, refreshErr |-> nil, posted |-> "none",
     afterKey |-> FALSE, early |-> FALSE, usage |-> NoPayload, steps |-> <<>>]

NoPolls == [failed |-> 0, rateLimited |-> 0, generic |-> 0]

\* The backoff that the last rate-limited poll stored, until an invocation has
\* slept it: its length (0: none pending), the invocations that found it pending
\* when they started (readers) and the ones that are sleeping it.
NoLimit == [backoff |-> 0, readers |-> 0, sleepers |-> {}]

(***************************************************************************)
(* Usage notifications (app.go:296-346)                                    *)
(***************************************************************************)
\* the window of notifications the model remembers
MaxSent == 2

RECURSIVE highestFrom(_, _, _, _)
highestFrom(i, highest, utilization, thresholds) ==
    IF i > Len(thresholds) THEN highest
    ELSE LET t == thresholds[i]
         IN  highestFrom(i + 1, IF utilization >= t /\ t > highest THEN t ELSE highest,
                         utilization, thresholds)

\* app.go:336-346
highestCrossedThreshold(utilization, thresholds) == highestFrom(1, 0, utilization, thresholds)

\* one metric's block of checkAndNotify firing whenever a threshold is met
checkMetricRepeating(crossed, last) ==
    IF crossed >= last /\ crossed > 0 THEN [last |-> crossed, fire |-> TRUE]
    ELSE IF crossed < last THEN [last |-> crossed, fire |-> FALSE]
    ELSE [last |-> last, fire |-> FALSE]

\* one metric's block of checkAndNotify resetting the record on a decrease
checkMetricResetting(crossed, last) ==
    IF crossed > last THEN [last |-> crossed, fire |-> TRUE]
    ELSE IF crossed < last THEN [last |-> 0, fire |-> FALSE]
    ELSE [last |-> last, fire |-> FALSE]

\* app.go:308-320 and :323-333   one metric's block of checkAndNotify: the new
\* record and whether a notification is sent
checkMetric(crossed, last) ==
    IF crossed > last THEN [last |-> crossed, fire |-> TRUE]
    ELSE IF crossed < last THEN [last |-> crossed, fire |-> FALSE]
    ELSE [last |-> last, fire |-> FALSE]

Notification(metric, threshold) == [metric |-> metric, threshold |-> threshold]

\* app.go:298-334   the records it leaves and the notifications it sends, in order
checkAndNotify(enabled, thresholds, session, weekly, usage) ==
    IF ~enabled \/ Len(thresholds) = 0
    THEN [ran |-> FALSE, session |-> session, weekly |-> weekly, fired |-> <<>>]
    ELSE LET sessionCrossed == highestCrossedThreshold(usage.fiveHour.utilization, thresholds)
             weeklyCrossed == highestCrossedThreshold(usage.sevenDay.utilization, thresholds)
             sm == checkMetric(sessionCrossed, session)
             wm == checkMetric(weeklyCrossed, weekly)
         IN  [ran |-> TRUE, session |-> sm.last, weekly |-> wm.last,
              fired |-> (IF sm.fire THEN <<Notification("session", sessionCrossed)>> ELSE <<>>)
                        \o (IF wm.fire THEN <<Notification("weekly", weeklyCrossed)>>
                            ELSE <<>>)]

\* the last MaxSent elements of a sequence
LastOf(q) == IF Len(q) <= MaxSent THEN q ELSE SubSeq(q, Len(q) - MaxSent + 1, Len(q))

NoCrossing == [called |-> FALSE, utilization |-> 0, thresholds |-> <<>>, highest |-> 0]
NoEvaluation ==
    [called |-> FALSE, usage |-> NoPayload, session |-> 0, weekly |-> 0, fired |-> <<>>]

\* fetchUsage's call of checkAndNotify (app.go:293), and the SpecNotify's
Notify(usage) ==
    LET res == checkAndNotify(notificationsEnabled, alertThresholds,
                              lastSessionThreshold, lastWeeklyThreshold, usage)
    IN  /\ lastSessionThreshold' = res.session
        /\ lastWeeklyThreshold' = res.weekly
        /\ notified' = [called |-> TRUE, usage |-> usage, session |-> lastSessionThreshold,
                        weekly |-> lastWeeklyThreshold, fired |-> res.fired]
        /\ sent' = LastOf(sent \o res.fired)
        /\ UNCHANGED <<notificationsEnabled, alertThresholds, crossing>>

InitNotify(enabled, thresholds) ==
    /\ notificationsEnabled = enabled
    /\ alertThresholds = thresholds
    /\ lastSessionThreshold = 0
    /\ lastWeeklyThreshold = 0
    /\ notified = NoEvaluation
    /\ sent = <<>>
    /\ crossing = NoCrossing

(***************************************************************************)
(* refreshLoop's constants and state (app.go:152-165)                      *)
(***************************************************************************)
\* app.go:153   const idleThreshold = 300
idleThreshold == 300
\* app.go:154   const idleInterval = 300
idleInterval == 300
\* app.go:157   if normalInterval < 15*time.Second
MinIntervalSec == 15

\* app.go:156-159
normalInterval(interval) == IF interval < MinIntervalSec THEN MinIntervalSec ELSE interval

NoTick ==
    [n |-> 0, idleSec |-> 0, wasIdle |-> FALSE, resets |-> <<>>, fetches |-> 0,
     stopped |-> FALSE]

\* app.go:161-164   refreshLoop starts: the ticker and wasIdle
InitRefreshLoop(interval) ==
    /\ refreshInterval = interval
    /\ loopNormal = normalInterval(interval)
    /\ wasIdle = FALSE
    /\ refreshTimer = normalInterval(interval)
    /\ tick = NoTick
    /\ exited = FALSE

\* the snap positions the hotkeys are tried with (widgets of the overlay are
\* laid out horizontally at the top, vertically elsewhere)
SnapPositions == {"top", "left"}

\* overlay.go:58-91, widgets.go:333-338, app.go:96-120   initUI over a loaded
\* configuration: the tray's flag starts true, the overlay is shown if enabled
initUI(enabled, position) ==
    [overlay |-> [visible |-> enabled, position |-> position,
                  isVertical |-> position # "top"],
     overlayShown |-> TRUE,
     config |-> [OverlayEnabled |-> enabled, OverlayPosition |-> position],
     file |-> [OverlayEnabled |-> enabled, OverlayPosition |-> position]]

\* app.go:46-48, :75-88   Run up to the event loop: the stop channel is open, the
\* hotkey manager was started (its listener set up or not) and the application runs
InitRun(listening) ==
    /\ running = TRUE
    /\ stopChan = "open"
    /\ closes = 0
    /\ shutdowns = 0
    /\ hotkeyMgr = [running |-> TRUE, listening |-> listening, stops |-> 0]
    /\ eventLoop = "running"

\* part_004:44-46   the default overlay settings
InitLife ==
    /\ InitRun(TRUE)
    /\ ui = initUI(TRUE, "top")

\* the configuration the polls run under when a specification does not vary it
PollThresholds == <<50, 75>>
PollInterval == 60

\* app.go:46-49 and the zero values of App's fields
InitPolls ==
    /\ consecutiveErrors = 0
    /\ rateLimitBackoff = 0
    /\ status = StatusNone
    /\ pc = [s \in Slots |-> "idle"]
    /\ loc = [s \in Slots |-> NoLocals]
    /\ authFetched = FALSE
    /\ polls = NoPolls
    /\ started = 0
    /\ limited = NoLimit

InitApp ==
    /\ InitPolls
    /\ InitNotify(TRUE, PollThresholds)
    /\ InitRefreshLoop(PollInterval)
    /\ InitLife

(***************************************************************************)
(* SpecClient: one call of the client, from any state of its fields, with  *)
(* any answers of the server.  A behaviour sets the fields up and makes    *)
(* one call; `call` keeps the answers and the result.                      *)
(***************************************************************************)
\* client.go:76-80
SetSessionKey(key) ==
    /\ call = NoCall
    /\ sessionKey' = key
    /\ UNCHANGED <<organizationID, lastUsage, lastFetch, cfgVars, call, auth, appVars>>

\* client.go:83-87
SetOrganizationID(id) ==
    /\ call = NoCall
    /\ organizationID' = id
    /\ UNCHANGED <<sessionKey, lastUsage, lastFetch, cfgVars, call, auth, appVars>>

\* client.go:111-140
CallFetchOrganizations(resps) ==
    /\ call = NoCall
    /\ call' = [NoCall EXCEPT !.method = "FetchOrganizations", !.resps = resps,
                              !.res = FetchOrganizations(sessionKey, resps)]
    /\ UNCHANGED <<clientVars, cfgVars, auth, appVars>>

\* client.go:184-219, and :273-276 for the cache; the clock reads `now`
CallFetchUsage(resps, now) ==
    LET res == FetchUsage(sessionKey, organizationID, resps)
        cache == [lastUsage |-> lastUsage, lastFetch |-> lastFetch]
        after == IF res.err = nil THEN cacheUsage(cache, res.usage, now) ELSE cache
    IN  /\ call = NoCall
        /\ call' = [method |-> "FetchUsage", resps |-> resps, res |-> res,
                    before |-> cache, now |-> now]
        /\ lastUsage' = after.lastUsage
        /\ lastFetch' = after.lastFetch
        /\ UNCHANGED <<sessionKey, organizationID, cfgVars, auth, appVars>>

\* the clock when the client was last left, and when it is called
FirstFetch == 1
CallTimes == {2, 3}

InitClient ==
    /\ sessionKey = ""
    /\ organizationID = ""
    /\ \/ lastUsage = NoUsage /\ lastFetch = ZeroTime
       \/ \E u \in UsagePayloads :
            /\ lastUsage = [set |-> TRUE, usage |-> ToUsageData(u)]
            /\ lastFetch = FirstFetch
    /\ cfgSessionKey = ""
    /\ cfgOrganizationID = ""
    /\ Loaded
    /\ call = NoCall
    /\ auth = NoAuth
    /\ InitApp

NextClient ==
    \/ \E k \in {"", "kSaved"} : SetSessionKey(k)
    \/ \E o \in {"", "oSaved"} : SetOrganizationID(o)
    \/ \E r1, r2 \in OrgResps : CallFetchOrganizations(<<r1, r2>>)
    \/ \E r1, r2 \in UsageResps, now \in CallTimes : CallFetchUsage(<<r1, r2>>, now)

SpecClient == InitClient /\ [][NextClient]_vars

(***************************************************************************)
(* C1.  FetchOrganizations and FetchUsage alike: a first attempt that      *)
(* fails with a non-auth error is followed, after a 2 s sleep, by exactly  *)
(* one more attempt whose result (its error, if it fails too) is the       *)
(* call's result; an attempt that fails with Unauthorized or               *)
(* SessionExpired is the last one; no call makes more than two attempts.   *)
(***************************************************************************)
OnceErr(method, resp) ==
    IF method = "FetchOrganizations" THEN fetchOrganizationsOnce(resp).err
    ELSE fetchUsageOnce(resp).err

C1_RetryOnce ==
    (call.method # "none" /\ call.res.requests > 0) =>
        LET e1 == OnceErr(call.method, call.resps[1])
            e2 == OnceErr(call.method, call.resps[2])
            auth1 == e1 \in {ErrUnauthorized, ErrSessionExpired}
        IN  /\ call.res.requests <= 2
            /\ (e1 = nil \/ auth1) =>
                  /\ call.res.requests = 1
                  /\ call.res.sleeps = <<>>
                  /\ call.res.err = e1
            /\ (e1 # nil /\ ~auth1) =>
                  /\ call.res.requests = 2
                  /\ call.res.sleeps = <<2>>
                  /\ call.res.err = e2

C1_Witness ==
    /\ call.method = "FetchOrganizations"
    /\ call.resps[1].status = 0
    /\ call.res.requests = 2
    /\ call.res.sleeps = <<2>>
    /\ call.res.err = ErrUnauthorized

(***************************************************************************)
(* C2.  A FetchUsage attempt that receives HTTP 429 (a status >= 500) makes*)
(* FetchUsage return RateLimited (ServiceUnavailable) after that single    *)
(* attempt, without a sleep and without a second request.                  *)
(***************************************************************************)
C2_NoClientRetryOn429or5xx ==
    (/\ call.method = "FetchUsage"
     /\ call.res.requests > 0
     /\ (call.resps[1].status = 429 \/ call.resps[1].status >= 500)) =>
        /\ call.res.requests = 1
        /\ call.res.sleeps = <<>>
        /\ call.res.err = IF call.resps[1].status = 429 THEN ErrRateLimited
                          ELSE ErrAPIUnavailable

(***************************************************************************)
(* SpecAuth: the AuthManager's operations, one call at a time, from the    *)
(* saved configuration the process starts with.  Initialize runs once      *)
(* (App.authenticate); the settings dialog's SetManualSessionKey and       *)
(* RefreshFromBrowser (also fetchUsage's re-authentication) run any number *)
(* of times.  `auth` keeps what the last call did.                         *)
(***************************************************************************)
\* the server's answers to FetchOrganizations the operations are tried with
OrgOK(orgs) == [status |-> 200, body |-> "data", orgs |-> orgs]
OrgFail(code, body) == [status |-> code, body |-> body, orgs |-> <<>>]
AuthOrgSeqs ==
    {<<OrgOK(o), OrgOK(o)>> : o \in OrgLists}
    \cup {<<OrgFail(401, "err_session_invalid"), OrgOK(<<"o1">>)>>,
          <<OrgFail(403, "garbage"), OrgOK(<<"o1">>)>>,
          <<OrgFail(500, "garbage"), OrgFail(500, "garbage")>>,
          <<OrgFail(0, "garbage"), OrgOK(<<"o1">>)>>,
          <<OrgFail(0, "garbage"), OrgFail(401, "err_other")>>,
          <<OrgFail(200, "garbage"), OrgFail(429, "garbage")>>}

ManualKeys == {"", "kManual"}

\* the outcomes of the writes of the configuration file during one operation
Writable == {<<>>}
WithWrites(st, ws) == [st EXCEPT !.writes = ws]

Install(st) ==
    /\ sessionKey' = st.sessionKey
    /\ organizationID' = st.organizationID
    /\ cfgSessionKey' = st.cfgSessionKey
    /\ cfgOrganizationID' = st.cfgOrganizationID
    /\ disk' = st.disk

\* app.go:132   a.authManager.Initialize()
DoInitialize(answers, outcomes) ==
    /\ auth.op = "none"
    /\ \E rs1 \in answers, cli \in CliFiles, ext \in ExtractInputs, rs2 \in answers,
          ws \in outcomes :
          LET in == [resps1 |-> rs1, cli |-> cli, ext |-> ext, resps2 |-> rs2]
              pre == WithWrites(Creds, ws)
              res == Initialize(pre, in)
          IN  /\ Install(res.st)
              /\ auth' = [op |-> "Initialize", arg |-> "", pre |-> pre, in |-> in,
                          res |-> res]
    /\ UNCHANGED <<lastUsage, lastFetch, call, appVars>>

\* app.go:391   the settings dialog's onSessionKey callback
DoSetManualSessionKey(answers, outcomes) ==
    /\ \E key \in ManualKeys, rs \in answers, ws \in outcomes :
          LET pre == WithWrites(Creds, ws)
              res == SetManualSessionKey(pre, key, rs)
          IN  /\ Install(res.st)
              /\ auth' = [op |-> "SetManualSessionKey", arg |-> key, pre |-> pre,
                          in |-> [NoAuthIn EXCEPT !.resps1 = rs], res |-> res]
    /\ UNCHANGED <<lastUsage, lastFetch, call, appVars>>

\* app.go:392, :229, :241
DoRefreshFromBrowser(answers, outcomes) ==
    /\ \E ext \in ExtractInputs, rs \in answers, ws \in outcomes :
          LET pre == WithWrites(Creds, ws)
              res == RefreshFromBrowser(pre, ext, rs)
          IN  /\ Install(res.st)
              /\ auth' = [op |-> "RefreshFromBrowser", arg |-> "", pre |-> pre,
                          in |-> [NoAuthIn EXCEPT !.ext = ext, !.resps1 = rs], res |-> res]
    /\ UNCHANGED <<lastUsage, lastFetch, call, appVars>>

InitAuth ==
    /\ sessionKey = ""
    /\ organizationID = ""
    /\ lastUsage = NoUsage
    /\ lastFetch = ZeroTime
    /\ cfgSessionKey \in {"", "kSaved"}
    /\ cfgOrganizationID \in {"", "oSaved"}
    /\ Loaded
    /\ call = NoCall
    /\ auth = NoAuth
    /\ InitApp

NextAuth ==
    \/ DoInitialize(AuthOrgSeqs, Writable)
    \/ DoSetManualSessionKey(AuthOrgSeqs, Writable)
    \/ DoRefreshFromBrowser(AuthOrgSeqs, Writable)

SpecAuth == InitAuth /\ [][NextAuth]_vars

(***************************************************************************)
(* SpecStore: the AuthManager's operations while writes of the             *)
(* configuration file fail.                                                *)
(***************************************************************************)
StoreOrgSeqs ==
    {<<OrgOK(<<"o1">>), OrgOK(<<"o1">>)>>,
     <<OrgFail(0, "garbage"), OrgOK(<<"o2", "o1">>)>>,
     <<OrgFail(401, "err_session_invalid"), OrgOK(<<"o1">>)>>,
     <<OrgFail(500, "garbage"), OrgFail(500, "garbage")>>}
WriteOutcomes ==
    {<<TRUE, TRUE, TRUE, TRUE>>, <<FALSE, FALSE, FALSE, FALSE>>,
     <<FALSE, TRUE, FALSE, TRUE>>, <<TRUE, FALSE, TRUE, FALSE>>}

NextStore ==
    \/ DoInitialize(StoreOrgSeqs, WriteOutcomes)
    \/ DoSetManualSessionKey(StoreOrgSeqs, WriteOutcomes)
    \/ DoRefreshFromBrowser(StoreOrgSeqs, WriteOutcomes)

SpecStore == InitAuth /\ [][NextStore]_vars

(***************************************************************************)
(* app.App: fetchUsage and its callers                                     *)
(***************************************************************************)
\* app.go:178-187 (refreshLoop), :410 (refreshNow), :148 (authenticate), :395 (settings save)
Callers == {"loop", "refreshNow", "authenticate", "settingsSave"}

\* the overlay's status texts
StatusExpiredRefreshing == "Session expired - refreshing..."
StatusExpiredUpdateKey == "Session expired - update key in Settings"
StatusAuthRefreshing == "Auth failed - refreshing..."
StatusAuthUpdateKey == "Auth failed - update key in Settings"
StatusUnavailable == "Claude API unavailable"
StatusConnection == "Connection error - retrying..."
\* app.go:256   fmt.Sprintf("Rate limited - retry in %ds", backoffSec)
StatusRateLimited(sec) ==
    CASE sec = 30 -> "Rate limited - retry in 30s"
      [] sec = 60 -> "Rate limited - retry in 60s"
      [] sec = 120 -> "Rate limited - retry in 120s"
      [] sec = 240 -> "Rate limited - retry in 240s"
      [] OTHER -> "Rate limited - retry in more than 240s"

Min(a, b) == IF a < b THEN a ELSE b

\* app.go:250   30 * (1 << min(errCount-1, 3))
BackoffSec(errCount) == BackoffBaseSec * 2 ^ Min(errCount - 1, BackoffMaxShift)

\* app.go:224, :236   the errors fetchUsage answers with RefreshFromBrowser
NeedsReauthExpiredOnly(err) == err = ErrSessionExpired
NeedsReauth(err) == err = ErrSessionExpired \/ err = ErrUnauthorized

\* app.go:266   the default branch shows the connection error
ShowsConnectionErrorAtOnce(errCount) == errCount >= 1
ShowsConnectionError(errCount) == errCount >= TransientThreshold

\* the class of a poll by the error FetchUsage returned (the switch of app.go:223-271)
PollClass(err) ==
    IF err = nil THEN "ok"
    ELSE IF NeedsReauth(err) THEN "auth"
    ELSE IF err = ErrRateLimited THEN "rateLimited"
    ELSE IF err = ErrAPIUnavailable THEN "unavailable"
    ELSE "generic"

InProgress(s) == pc[s] \notin {"idle"}
InProgressBy(c) == {s \in Slots : InProgress(s) /\ loc[s].caller = c}

\* Whether caller c can start an invocation: refreshLoop and the settings-save
\* callback call fetchUsage synchronously (app.go:178-187, :395), authenticate
\* calls it once, after Initialize succeeded (app.go:132-148); refreshNow starts
\* a goroutine per click (app.go:410).
CallerFreeAlways(c) == TRUE
CallerFree(c) ==
    CASE c = "refreshNow" -> TRUE
      [] c = "authenticate" -> ~authFetched /\ IsAuthenticated(Creds)
      [] OTHER -> InProgressBy(c) = {}

\* the polls that failed since the last successful one: all of them, the run of
\* rate-limited ones that the last poll ends, and the generic ones
CountPoll(p, class) ==
    IF class = "ok" THEN NoPolls
    ELSE [failed |-> p.failed + 1,
          rateLimited |-> IF class = "rateLimited" THEN p.rateLimited + 1 ELSE 0,
          generic |-> IF class = "generic" THEN p.generic + 1 ELSE p.generic]

\* the server's answers to FetchUsage the polls are tried with
UsageOK(u) == [status |-> 200, body |-> "data", usage |-> u]
UsageFail(code, body) == [status |-> code, body |-> body, usage |-> EmptyResponse]
AppUsageSeqs ==
    {<<UsageOK(Reading(80, 10)), UsageOK(Reading(80, 10))>>,
     <<UsageFail(401, "err_session_invalid"), UsageFail(401, "err_session_invalid")>>,
     <<UsageFail(403, "garbage"), UsageFail(403, "garbage")>>,
     <<UsageFail(429, "garbage"), UsageFail(429, "garbage")>>,
     <<UsageFail(503, "garbage"), UsageFail(503, "garbage")>>,
     <<UsageFail(0, "garbage"), UsageFail(0, "garbage")>>,
     <<UsageFail(0, "garbage"), UsageFail(401, "err_other")>>,
     <<UsageFail(200, "garbage"), UsageFail(404, "garbage")>>}
\* and the cookie stores and the server's answers its re-authentication is tried with
AppExtractInputs ==
    {<<[key |-> "kBrowser", err |-> nil], [key |-> "", err |-> ErrNoCookieFound]>>,
     <<[key |-> "", err |-> ErrDecryptFailed], [key |-> "", err |-> ErrNoCookieFound]>>}
AppOrgSeqs ==
    {<<OrgOK(<<"o1">>), OrgOK(<<"o1">>)>>,
     <<OrgOK(<<>>), OrgOK(<<>>)>>,
     <<OrgFail(401, "err_session_invalid"), OrgFail(401, "err_session_invalid")>>,
     <<OrgFail(0, "garbage"), OrgFail(500, "garbage")>>}

\* fetchUsage looking at the backoff before the authentication check
FirstStepBackoffFirst(authenticated, backoff) ==
    IF backoff > 0 THEN "consume"
    ELSE IF ~authenticated THEN "done"
    ELSE "call"

\* app.go:198-206   where fetchUsage goes first
FirstStep(authenticated, backoff) ==
    IF ~authenticated THEN "done"
    ELSE IF backoff > 0 THEN "consume"
    ELSE "call"

\* app.go:197-206   fetchUsage starts: the authentication check and the read of the backoff
Begin(s, c) ==
    /\ pc[s] = "idle"
    /\ CallerFree(c)
    /\ authFetched' = (authFetched \/ c = "authenticate")
    /\ started' = Min(started + 1, MaxStarts)
    /\ LET first == FirstStep(IsAuthenticated(Creds), rateLimitBackoff)
       IN  /\ pc' = [pc EXCEPT ![s] = first]
           /\ loc' = [loc EXCEPT ![s] =
                          [NoLocals EXCEPT !.caller = c,
                                           !.backoff = IF first = "done" THEN 0
                                                       ELSE rateLimitBackoff,
                                           !.afterKey = (auth.op = "SetManualSessionKey"
                                                         /\ auth.res.ret = nil)]]
           /\ limited' = IF first = "consume" THEN [limited EXCEPT !.readers = @ + 1]
                         ELSE limited
    /\ UNCHANGED <<clientVars, cfgVars, call, auth, consecutiveErrors, rateLimitBackoff,
                   status, polls, notifyVars, lifeVars>>

\* app.go:207-209   the pending backoff is reset
Consume(s) ==
    /\ pc[s] = "consume"
    /\ rateLimitBackoff' = 0
    /\ pc' = [pc EXCEPT ![s] = "sleep"]
    /\ limited' = IF limited.backoff > 0 /\ loc[s].backoff >= limited.backoff
                  THEN [limited EXCEPT !.sleepers = @ \cup {s}]
                  ELSE limited
    /\ UNCHANGED <<clientVars, cfgVars, call, auth, consecutiveErrors, status, loc,
                   authFetched, started, notifyVars, loopVars, lifeVars, polls>>

\* app.go:211-214, client.go:185-188   the sleep, if any, is over; FetchUsage reads
\* the credentials and sends its request
CallFetch(s) ==
    /\ pc[s] \in {"sleep", "call"}
    /\ loc' = [loc EXCEPT ![s].slept = IF pc[s] = "sleep" THEN loc[s].backoff ELSE 0,
                          ![s].key = sessionKey,
                          ![s].org = organizationID,
                          ![s].fetches = @ + 1,
                          ![s].early = (limited.backoff > 0 /\ s \notin limited.sleepers)]
    /\ pc' = [pc EXCEPT ![s] = "fetching"]
    /\ limited' = IF s \in limited.sleepers THEN NoLimit ELSE limited
    /\ UNCHANGED <<clientVars, cfgVars, call, auth, consecutiveErrors, rateLimitBackoff,
                   status, authFetched, started, notifyVars, loopVars, lifeVars, polls>>

\* fetchUsage evaluating the thresholds before it hands the snapshot over
SuccessStepNotifyFirst(at) ==
    IF at = "reset" THEN "notify"
    ELSE IF at = "notify" THEN "present"
    ELSE "done"

\* app.go:275-293   what follows a step of fetchUsage's success path
\* client.go:275   the clock of the application specifications, which measure
\* no time: every successful fetch reads the same instant
PollTime == 1

SuccessStep(at) ==
    IF at = "reset" THEN "present"
    ELSE IF at = "present" THEN "notify"
    ELSE "done"

\* app.go:214-221, client.go:276-279   FetchUsage returns.  On an error the counter
\* is incremented; on success the client has cached the snapshot.
FetchReturn(s) ==
    /\ pc[s] = "fetching"
    /\ \E rs \in AppUsageSeqs :
         LET res == FetchUsage(loc[s].key, loc[s].org, rs)
             cache == [lastUsage |-> lastUsage, lastFetch |-> lastFetch]
         IN  /\ polls' = CountPoll(polls, PollClass(res.err))
             /\ IF res.err # nil
                THEN /\ consecutiveErrors < MaxErrors
                     /\ consecutiveErrors' = consecutiveErrors + 1
                     /\ loc' = [loc EXCEPT ![s].err = res.err,
                                           ![s].errCount = consecutiveErrors + 1]
                     /\ pc' = [pc EXCEPT ![s] = "classify"]
                     /\ UNCHANGED <<lastUsage, lastFetch, rateLimitBackoff, status, notifyVars>>
                ELSE /\ lastUsage' = cacheUsage(cache, res.usage, PollTime).lastUsage
                     /\ lastFetch' = cacheUsage(cache, res.usage, PollTime).lastFetch
                     /\ loc' = [loc EXCEPT ![s].usage = res.usage]
                     /\ pc' = [pc EXCEPT ![s] = "reset"]
                     /\ UNCHANGED <<consecutiveErrors, rateLimitBackoff, status, notifyVars>>
    /\ UNCHANGED <<sessionKey, organizationID, cfgVars, call, auth, callerVars, loopVars,
                   lifeVars>>

\* app.go:275-278   the error counters are reset
ResetCounters(s) ==
    /\ pc[s] = "reset"
    /\ consecutiveErrors' = 0
    /\ rateLimitBackoff' = 0
    /\ loc' = [loc EXCEPT ![s].steps = Append(@, "reset")]
    /\ pc' = [pc EXCEPT ![s] = SuccessStep("reset")]
    /\ UNCHANGED <<clientVars, cfgVars, call, auth, status, callerVars, notifyVars, loopVars,
                   lifeVars, polls>>

\* app.go:286-289   the snapshot is handed to the overlay and the tray (fyne.Do);
\* the overlay's UpdateUsage clears the status text (overlay.go:407-410)
UpdateUsage(s) ==
    /\ pc[s] = "present"
    /\ status' = StatusNone
    /\ loc' = [loc EXCEPT ![s].posted = StatusNone, ![s].steps = Append(@, "present")]
    /\ pc' = [pc EXCEPT ![s] = SuccessStep("present")]
    /\ UNCHANGED <<clientVars, cfgVars, call, auth, consecutiveErrors, rateLimitBackoff,
                   callerVars, notifyVars, loopVars, lifeVars, polls>>

\* app.go:293   a.checkAndNotify(usage)
CheckAndNotify(s) ==
    /\ pc[s] = "notify"
    /\ Notify(loc[s].usage)
    /\ loc' = [loc EXCEPT ![s].steps = Append(@, "notify")]
    /\ pc' = [pc EXCEPT ![s] = SuccessStep("notify")]
    /\ UNCHANGED <<clientVars, cfgVars, call, auth, consecutiveErrors, rateLimitBackoff,
                   status, callerVars, loopVars, lifeVars, polls>>

\* app.go:223-272   the switch on the error
Classify(s) ==
    /\ pc[s] = "classify"
    /\ LET err == loc[s].err
           errCount == loc[s].errCount
       IN  IF NeedsReauth(err)
           THEN LET text == IF err = ErrSessionExpired THEN StatusExpiredRefreshing
                            ELSE StatusAuthRefreshing
                IN  /\ status' = text
                    /\ loc' = [loc EXCEPT ![s].posted = text]
                    /\ pc' = [pc EXCEPT ![s] = "refresh"]
                    /\ UNCHANGED <<rateLimitBackoff, limited>>
           ELSE IF err = ErrRateLimited
           THEN /\ rateLimitBackoff' = BackoffSec(errCount)
                /\ limited' = [NoLimit EXCEPT !.backoff = BackoffSec(errCount)]
                /\ status' = StatusRateLimited(BackoffSec(errCount))
                /\ loc' = [loc EXCEPT ![s].posted = StatusRateLimited(BackoffSec(errCount))]
                /\ pc' = [pc EXCEPT ![s] = "done"]
           ELSE IF err = ErrAPIUnavailable
           THEN /\ status' = StatusUnavailable
                /\ loc' = [loc EXCEPT ![s].posted = StatusUnavailable]
                /\ pc' = [pc EXCEPT ![s] = "done"]
                /\ UNCHANGED <<rateLimitBackoff, limited>>
           ELSE /\ status' = IF ShowsConnectionError(errCount) THEN StatusConnection ELSE status
                /\ loc' = [loc EXCEPT ![s].posted =
                               IF ShowsConnectionError(errCount) THEN StatusConnection ELSE @]
                /\ pc' = [pc EXCEPT ![s] = "done"]
                /\ UNCHANGED <<rateLimitBackoff, limited>>
    /\ UNCHANGED <<clientVars, cfgVars, call, auth, consecutiveErrors, authFetched, started,
                   notifyVars, loopVars, lifeVars, polls>>

\* app.go:229-234, :241-246   RefreshFromBrowser, and the status if it failed
Refresh(s) ==
    /\ pc[s] = "refresh"
    /\ \E ext \in AppExtractInputs, rs \in AppOrgSeqs :
         LET res == RefreshFromBrowser(Creds, ext, rs)
             text == IF loc[s].err = ErrSessionExpired THEN StatusExpiredUpdateKey
                     ELSE StatusAuthUpdateKey
         IN  /\ Install(res.st)
             /\ status' = IF res.ret # nil THEN text ELSE status
             /\ loc' = [loc EXCEPT ![s].refreshes = @ + 1,
                                   ![s].refreshErr = res.ret,
                                   ![s].posted = IF res.ret # nil THEN text ELSE @]
    /\ pc' = [pc EXCEPT ![s] = "done"]
    /\ UNCHANGED <<lastUsage, lastFetch, call, auth, consecutiveErrors, rateLimitBackoff, callerVars,
                   notifyVars, loopVars, lifeVars,
                   polls>>

\* a fetchUsage whose failed re-authentication ends the polling loop
ReturnFatal(s) ==
    /\ pc[s] = "done"
    /\ pc' = [pc EXCEPT ![s] = "idle"]
    /\ loc' = [loc EXCEPT ![s] = NoLocals]
    /\ refreshTimer' = IF loc[s].caller = "settingsSave" THEN refreshInterval
                       ELSE refreshTimer
    /\ exited' = (exited \/ (loc[s].caller = "loop" /\ loc[s].refreshErr # nil))
    /\ UNCHANGED <<clientVars, cfgVars, call, auth, consecutiveErrors, rateLimitBackoff,
                   status, callerVars, notifyVars, lifeVars, polls, refreshInterval,
                   loopNormal, wasIdle, tick>>

\* app.go:199, :272, :294   fetchUsage returns to its caller: refreshLoop goes back
\* to its select, the goroutine of refreshNow or authenticate ends
Return(s) ==
    /\ pc[s] = "done"
    /\ pc' = [pc EXCEPT ![s] = "idle"]
    /\ loc' = [loc EXCEPT ![s] = NoLocals]
    \* app.go:396-399   the settings callback goes on to reset the ticker
    /\ refreshTimer' = IF loc[s].caller = "settingsSave" THEN refreshInterval
                       ELSE refreshTimer
    /\ UNCHANGED <<clientVars, cfgVars, call, auth, consecutiveErrors, rateLimitBackoff,
                   status, callerVars, notifyVars, lifeVars, polls, refreshInterval,
                   loopNormal, wasIdle, tick, exited>>

\* The credentials once App.authenticate has run Initialize: none found, or the
\* saved key verified.
InitPolling ==
    /\ \/ /\ sessionKey = "" /\ organizationID = ""
          /\ cfgSessionKey = "" /\ cfgOrganizationID = ""
       \/ /\ sessionKey = "kSaved" /\ organizationID = "o1"
          /\ cfgSessionKey = "kSaved" /\ cfgOrganizationID = "o1"
    /\ Loaded
    /\ lastUsage = NoUsage
    /\ lastFetch = ZeroTime
    /\ call = NoCall
    /\ auth = NoAuth
    /\ InitApp

Step(s) ==
    \/ Consume(s)
    \/ CallFetch(s)
    \/ FetchReturn(s)
    \/ ResetCounters(s)
    \/ UpdateUsage(s)
    \/ CheckAndNotify(s)
    \/ Classify(s)
    \/ Refresh(s)
    \/ Return(s)

\* the idle-seconds readings of platform.Features.GetIdleSeconds the ticks are tried with
Readings == {0, 300, 301}

\* app.go:171   if idleSec > idleThreshold
IsIdleFromThreshold(idleSec) == idleSec >= idleThreshold
IsIdle(idleSec) == idleSec > idleThreshold

\* app.go:178-187   the calls of fetchUsage a tick makes, by the branch it takes
TickFetchesExtra(idleSec, idle) ==
    IF IsIdle(idleSec) # idle THEN 2 ELSE 1
TickFetches(idleSec, idle) ==
    IF IsIdle(idleSec) THEN 1
    ELSE IF idle THEN 1
    ELSE 1

\* app.go:168-188   a tick of refreshLoop: the idle reading, the change of mode
\* with its reset of the ticker, and the call of fetchUsage.  The select takes
\* a pending tick also when the stop channel is closed (app.go:166-192).
Tick(s, idleSec) ==
    /\ ~exited
    /\ LET toIdle == IsIdle(idleSec) /\ ~wasIdle
           toActive == ~IsIdle(idleSec) /\ wasIdle
           resets == IF toIdle THEN <<idleInterval>>
                     ELSE IF toActive THEN <<loopNormal>>
                     ELSE <<>>
       IN  /\ wasIdle' = IsIdle(idleSec)
           /\ refreshTimer' = IF resets # <<>> THEN resets[1] ELSE refreshTimer
           /\ tick' = [n |-> 1, idleSec |-> idleSec, wasIdle |-> wasIdle, resets |-> resets,
                       fetches |-> TickFetches(idleSec, wasIdle),
                       stopped |-> stopChan = "closed"]
    /\ Begin(s, "loop")
    /\ UNCHANGED <<refreshInterval, loopNormal, exited>>

\* app.go:109, :148, :395, :410   another caller starts fetchUsage
Start(s, c) ==
    /\ c # "loop"
    /\ Begin(s, c)
    /\ UNCHANGED loopVars

\* app.go:189-191   case <-a.stopChan: return
Exit ==
    /\ ~exited
    /\ InProgressBy("loop") = {}
    /\ stopChan = "closed"
    /\ exited' = TRUE
    /\ UNCHANGED <<clientVars, cfgVars, call, auth, consecutiveErrors, rateLimitBackoff,
                   status, pc, loc, callerVars, polls, notifyVars, lifeVars,
                   refreshInterval, loopNormal, wasIdle, refreshTimer, tick>>

\* hotkeys.go:75-86   Manager.Stop
Stop(m) ==
    IF ~m.running THEN m
    ELSE [running |-> FALSE, listening |-> FALSE, stops |-> m.stops + 1]

\* app.go:420-438   App.shutdown on the fields it touches (and a shutdown
\* without the guard on `running`)
shutdownUnguarded(app) ==
    [running |-> FALSE, stopChan |-> "closed", closes |-> app.closes + 1,
     hotkeyMgr |-> Stop(app.hotkeyMgr)]
shutdownFields(app) ==
    IF ~app.running THEN app
    ELSE [running |-> FALSE, stopChan |-> "closed", closes |-> app.closes + 1,
          hotkeyMgr |-> Stop(app.hotkeyMgr)]

\* app.go:420-438   a call of App.shutdown
CallShutdown ==
    LET after == shutdownFields([running |-> running, stopChan |-> stopChan,
                                 closes |-> closes, hotkeyMgr |-> hotkeyMgr])
    IN  /\ running' = after.running
        /\ stopChan' = after.stopChan
        /\ closes' = after.closes
        /\ hotkeyMgr' = after.hotkeyMgr
        /\ shutdowns' = shutdowns + 1

\* app.go:420-438   shutdown, when the application is running
shutdown ==
    /\ running
    /\ CallShutdown
    /\ UNCHANGED <<clientVars, cfgVars, call, auth, consecutiveErrors, rateLimitBackoff,
                   status, pc, loc, callerVars, polls, notifyVars, loopVars, eventLoop, ui>>

\* widgets.go:383-387, app.go:414-417   "Quit" of the tray menu: shutdown, then
\* the event loop is asked to end
quit ==
    /\ eventLoop \in {"running", "quitting"}
    /\ shutdowns < MaxQuits
    /\ CallShutdown
    /\ eventLoop' = "quitting"
    /\ UNCHANGED <<clientVars, cfgVars, call, auth, consecutiveErrors, rateLimitBackoff,
                   status, pc, loc, callerVars, polls, notifyVars, loopVars, ui>>

\* app.go:87   fyneApp.Run returns, after Quit or when the driver ends the loop
RunReturns ==
    /\ eventLoop \in {"running", "quitting"}
    /\ eventLoop' = "returned"
    /\ UNCHANGED <<clientVars, cfgVars, call, auth, consecutiveErrors, rateLimitBackoff,
                   status, pc, loc, callerVars, polls, notifyVars, loopVars,
                   running, stopChan, closes, shutdowns, hotkeyMgr, ui>>

\* app.go:89-92   the cleanup of Run
cleanup ==
    /\ eventLoop = "returned"
    /\ CallShutdown
    /\ eventLoop' = "cleaned"
    /\ UNCHANGED <<clientVars, cfgVars, call, auth, consecutiveErrors, rateLimitBackoff,
                   status, pc, loc, callerVars, polls, notifyVars, loopVars, ui>>

\* part_004:141-152   Config.Save of the overlay settings: the file takes them,
\* or the write fails and the caller goes on
SaveOverlay(u, written) == IF written THEN [u EXCEPT !.file = u.config] ELSE u

\* app.go:371-376, overlay.go:214-223, widgets.go:460-462
showOverlay(u, written) ==
    [SaveOverlay([u EXCEPT !.overlay.visible = TRUE, !.config.OverlayEnabled = TRUE],
                 written)
     EXCEPT !.overlayShown = TRUE]

\* app.go:379-384, overlay.go:238-243, widgets.go:460-462
hideOverlay(u, written) ==
    [SaveOverlay([u EXCEPT !.overlay.visible = FALSE, !.config.OverlayEnabled = FALSE],
                 written)
     EXCEPT !.overlayShown = FALSE]

\* widgets.go:411-433   the tray's toggle goes by its own flag
toggleOverlayOf(u, written) ==
    IF u.overlayShown
    THEN [hideOverlay(u, written) EXCEPT !.overlayShown = FALSE]
    ELSE [showOverlay(u, written) EXCEPT !.overlayShown = TRUE]

\* overlay.go:290-303, part_004:171-174   OverlayWindow.SnapTo
SnapTo(u, pos, written) ==
    SaveOverlay([u EXCEPT !.overlay.position = pos, !.overlay.isVertical = (pos # "top"),
                          !.config.OverlayPosition = pos],
                written)

\* app.go:350-360   the body handleSnapHotkey hands to the UI thread
handleSnapHotkeyOf(u, pos, written1, written2) ==
    LET snapped == SnapTo(u, pos, written1)
    IN  IF ~snapped.overlay.visible THEN showOverlay(snapped, written2) ELSE snapped

\* what Config.Save leaves of the credentials in the file when a write succeeds
SavedCreds(anyWritten) ==
    IF anyWritten
    THEN [sessionKey |-> cfgSessionKey, organizationID |-> cfgOrganizationID]
    ELSE disk

\* widgets.go:349, :411-433   a click on the tray's toggle item
toggleOverlay(written) ==
    /\ eventLoop \in {"running", "quitting"}
    /\ ui' = toggleOverlayOf(ui, written)
    /\ disk' = SavedCreds(written)
    /\ UNCHANGED <<clientVars, cfgSessionKey, cfgOrganizationID, call, auth,
                   consecutiveErrors, rateLimitBackoff,
                   status, pc, loc, callerVars, polls, notifyVars, loopVars,
                   running, stopChan, closes, shutdowns, hotkeyMgr, eventLoop>>

\* hotkeys.go:89-139, app.go:350-360   a snap hotkey, while the listener is set up
handleSnapHotkey(pos, written1, written2) ==
    /\ hotkeyMgr.listening
    /\ eventLoop \in {"running", "quitting"}
    /\ ui' = handleSnapHotkeyOf(ui, pos, written1, written2)
    /\ disk' = SavedCreds(written1 \/ (written2 /\ ~ui.overlay.visible))
    /\ UNCHANGED <<clientVars, cfgSessionKey, cfgOrganizationID, call, auth,
                   consecutiveErrors, rateLimitBackoff,
                   status, pc, loc, callerVars, polls, notifyVars, loopVars,
                   running, stopChan, closes, shutdowns, hotkeyMgr, eventLoop>>

\* overlay.go:538-567, app.go:391   "Set Key" in the settings dialog: its goroutine
\* calls SetManualSessionKey with the key typed, which is not empty
EnterSessionKey ==
    /\ auth.op = "none"
    /\ \E rs \in AppOrgSeqs :
          LET res == SetManualSessionKey(Creds, "kManual", rs)
          IN  /\ Install(res.st)
              /\ auth' = [op |-> "SetManualSessionKey", arg |-> "kManual", pre |-> Creds,
                          in |-> [NoAuthIn EXCEPT !.resps1 = rs], res |-> res]
    /\ UNCHANGED <<lastUsage, lastFetch, call, appVars>>

\* overlay.go:608-610   the values of the refresh-interval slider the saves are tried with
SliderIntervals == {15, 120}

\* overlay.go:650-664, app.go:393-399   "Save" in the settings dialog: the interval
\* goes to the configuration, which is written; if that worked the callback runs
\* fetchUsage and then (Return) resets the ticker
saveBtn(s, interval, written) ==
    /\ refreshInterval' = interval
    /\ IF written
       THEN Begin(s, "settingsSave")
       ELSE UNCHANGED <<clientVars, cfgVars, call, auth, consecutiveErrors, rateLimitBackoff,
                        status, pc, loc, callerVars, polls, notifyVars, lifeVars>>
    /\ UNCHANGED <<loopNormal, wasIdle, refreshTimer, tick, exited>>

(***************************************************************************)
(* SpecLoop: the polling goroutine alone, while the user is active; every  *)
(* tick of refreshLoop calls fetchUsage and waits for it.                  *)
(***************************************************************************)
NextLoop ==
    \/ Tick(1, 0)
    \/ Step(1)

SpecLoop == InitPolling /\ [][NextLoop]_vars

(***************************************************************************)
(* SpecTicks: the polling goroutine with any idle readings, and the        *)
(* shutdown of the application                                             *)
(***************************************************************************)
NextTicks ==
    \/ \E idleSec \in Readings : Tick(1, idleSec)
    \/ Step(1)
    \/ Exit
    \/ shutdown

\* the refresh intervals of the configuration the ticks are tried with
Intervals == {10, 60}

InitTicks ==
    /\ sessionKey = "kSaved" /\ organizationID = "o1"
    /\ cfgSessionKey = "kSaved" /\ cfgOrganizationID = "o1"
    /\ Loaded
    /\ lastUsage = NoUsage
    /\ lastFetch = ZeroTime
    /\ call = NoCall
    /\ auth = NoAuth
    /\ InitPolls
    /\ InitNotify(TRUE, PollThresholds)
    /\ \E interval \in Intervals : InitRefreshLoop(interval)
    /\ InitLife

SpecTicks == InitTicks /\ [][NextTicks]_vars

(***************************************************************************)
(* SpecSettings: the polling goroutine and a session key entered in the    *)
(* settings dialog                                                         *)
(***************************************************************************)
NextSettings ==
    \/ Tick(1, 0)
    \/ Step(1)
    \/ EnterSessionKey

SpecSettings == InitPolling /\ [][NextSettings]_vars

(***************************************************************************)
(* SpecSave: the polling goroutine and saves of the settings dialog        *)
(* between its polls; the configuration file takes the writes.             *)
(***************************************************************************)
SaveReadings == {0, 301}
SaveWritten == {TRUE}

NextSave ==
    \/ \E idleSec \in SaveReadings : Tick(1, idleSec)
    \/ Step(1)
    \/ \E interval \in SliderIntervals, written \in SaveWritten : saveBtn(1, interval, written)

SpecSave == InitPolling /\ [][NextSave]_vars

(***************************************************************************)
(* SpecTray: the tray menu, the snap hotkeys and the end of the            *)
(* application, from any saved overlay settings                            *)
(***************************************************************************)
TrayWrites == BOOLEAN

NextTray ==
    \/ \E written \in TrayWrites : toggleOverlay(written)
    \/ \E pos \in SnapPositions, written1, written2 \in TrayWrites :
         handleSnapHotkey(pos, written1, written2)
    \/ quit
    \/ RunReturns
    \/ cleanup
    \/ Exit

InitTray ==
    /\ sessionKey = "kSaved" /\ organizationID = "o1"
    /\ cfgSessionKey = "kSaved" /\ cfgOrganizationID = "o1"
    /\ Loaded
    /\ lastUsage = NoUsage
    /\ lastFetch = ZeroTime
    /\ call = NoCall
    /\ auth = NoAuth
    /\ InitPolls
    /\ InitNotify(TRUE, PollThresholds)
    /\ InitRefreshLoop(PollInterval)
    /\ \E listening \in BOOLEAN : InitRun(listening)
    /\ \E enabled \in BOOLEAN, position \in SnapPositions : ui = initUI(enabled, position)

SpecTray == InitTray /\ [][NextTray]_vars

(***************************************************************************)
(* SpecNotify: checkAndNotify over successful polls with any usage, under  *)
(* any configuration of the notifications                                  *)
(***************************************************************************)
ThresholdLists == {<<>>, <<50>>, <<50, 75, 90>>, <<90, 50>>}
NotifyUtils == {0, 50, 80, 95}
NotifyPayloads == {ToUsageData(Reading(u, w)) : u \in NotifyUtils, w \in NotifyUtils}

\* app.go:293   a poll succeeded with this usage
Evaluate(usage) ==
    /\ Notify(usage)
    /\ UNCHANGED <<clientVars, cfgVars, call, auth, consecutiveErrors, rateLimitBackoff,
                   status, pc, loc, callerVars, polls, loopVars, lifeVars>>

InitNotifications ==
    /\ sessionKey = "kSaved" /\ organizationID = "o1"
    /\ cfgSessionKey = "kSaved" /\ cfgOrganizationID = "o1"
    /\ Loaded
    /\ lastUsage = NoUsage
    /\ lastFetch = ZeroTime
    /\ call = NoCall
    /\ auth = NoAuth
    /\ InitPolls
    /\ \E enabled \in BOOLEAN, thresholds \in ThresholdLists : InitNotify(enabled, thresholds)
    /\ InitRefreshLoop(PollInterval)
    /\ InitLife

NextNotify == \E usage \in NotifyPayloads : Evaluate(usage)

SpecNotify == InitNotifications /\ [][NextNotify]_vars

(***************************************************************************)
(* SpecThresholds: highestCrossedThreshold on its own, for any utilization *)
(* and any list of thresholds that the configuration file can hold         *)
(* (numbers of any sign, in any order, repeated or none).                  *)
(***************************************************************************)
CrossUtils == {-20, -10, -5, 0, 10, 49, 50, 51, 75, 80, 90, 100, 120}
CrossLists ==
    {<<>>, <<50>>, <<50, 75, 90>>, <<90, 50, 75>>, <<75, 50, 75>>, <<50, 50>>,
     <<0>>, <<-10>>, <<-10, 50>>, <<100, 120>>}

CallHighestCrossedThreshold(utilization, thresholds) ==
    /\ crossing' = [called |-> TRUE, utilization |-> utilization, thresholds |-> thresholds,
                    highest |-> highestCrossedThreshold(utilization, thresholds)]
    /\ UNCHANGED <<clientVars, cfgVars, call, auth, consecutiveErrors, rateLimitBackoff,
                   status, pc, loc, callerVars, polls, loopVars, lifeVars,
                   notificationsEnabled, alertThresholds, lastSessionThreshold,
                   lastWeeklyThreshold, notified, sent>>

NextThresholds ==
    \E utilization \in CrossUtils, thresholds \in CrossLists :
        CallHighestCrossedThreshold(utilization, thresholds)

SpecThresholds == InitNotifications /\ [][NextThresholds]_vars

(***************************************************************************)
(* Spec: the polling goroutine and the other callers of fetchUsage, while  *)
(* the user is active                                                      *)
(***************************************************************************)
Next ==
    \/ \E s \in Slots, c \in Callers :
         /\ started < MaxStarts
         /\ \A t \in Slots : t < s => InProgress(t)
         /\ IF c = "loop" THEN Tick(s, 0) ELSE Start(s, c)
    \/ \E s \in Slots : Step(s)

Spec == InitPolling /\ [][Next]_vars

(***************************************************************************)
(* SpecBackoff: the callers of fetchUsage from the state that the first    *)
(* poll leaves when it was rate-limited (the backoff is stored, no         *)
(* invocation is under way).                                               *)
(***************************************************************************)
AfterRateLimitedPoll ==
    /\ sessionKey = "kSaved" /\ organizationID = "o1"
    /\ cfgSessionKey = "kSaved" /\ cfgOrganizationID = "o1"
    /\ Loaded
    /\ lastUsage = NoUsage
    /\ lastFetch = ZeroTime
    /\ call = NoCall
    /\ auth = NoAuth
    /\ consecutiveErrors = 1
    /\ rateLimitBackoff = BackoffSec(1)
    /\ status = StatusRateLimited(BackoffSec(1))
    /\ pc = [s \in Slots |-> "idle"]
    /\ loc = [s \in Slots |-> NoLocals]
    /\ authFetched = FALSE
    /\ polls = CountPoll(NoPolls, "rateLimited")
    /\ limited = [NoLimit EXCEPT !.backoff = BackoffSec(1)]
    /\ InitNotify(TRUE, PollThresholds)
    /\ refreshInterval = PollInterval
    /\ loopNormal = normalInterval(PollInterval)
    /\ wasIdle = FALSE
    /\ refreshTimer = normalInterval(PollInterval)
    /\ tick = [NoTick EXCEPT !.n = 1, !.fetches = 1]
    /\ exited = FALSE
    /\ InitLife

InitBackoff == AfterRateLimitedPoll /\ started = 0

SpecBackoff == InitBackoff /\ [][Next]_vars

\* What verify-and-fetch makes of the server's answers to a key: the error of
\* FetchOrganizations, or "no organizations found", or nil.
VerifyOutcome(key, resps) ==
    LET fo == FetchOrganizations(key, resps)
    IN  IF fo.err # nil THEN fo.err
        ELSE IF fo.orgs = <<>> THEN ErrNoOrgs
        ELSE nil

HasEvent(log, ev) == \E i \in DOMAIN log : log[i] = ev
IsPrefix(p, q) == Len(p) <= Len(q) /\ \A i \in DOMAIN p : p[i] = q[i]

(***************************************************************************)
(* C7.  After SetManualSessionKey(key) fails verification (an error of     *)
(* FetchOrganizations, or an empty organization list) the client's session *)
(* key is empty whatever key was installed before, the verification error  *)
(* is what the call returns, and the configuration's session key is what   *)
(* it was; the key is persisted exactly when the call succeeds.            *)
(***************************************************************************)
C7_ManualKeyRollback ==
    auth.op = "SetManualSessionKey" =>
        LET verr == VerifyOutcome(auth.arg, auth.in.resps1)
        IN  /\ auth.res.ret = verr
            /\ verr # nil =>
                 /\ sessionKey = ""
                 /\ ~IsAuthenticated(Creds)
                 /\ cfgSessionKey = auth.pre.cfgSessionKey
            /\ verr = nil =>
                 /\ sessionKey = auth.arg
                 /\ cfgSessionKey = auth.arg

C7_Witness ==
    /\ auth.op = "SetManualSessionKey"
    /\ auth.arg = "kManual"
    /\ auth.pre.sessionKey = "kBrowser"
    /\ auth.pre.cfgSessionKey = "kBrowser"
    /\ auth.res.ret = ErrUnauthorized
    /\ sessionKey = ""
    /\ cfgSessionKey = "kBrowser"

(***************************************************************************)
(* C8.  Initialize consults the saved configuration, then the CLI          *)
(* credential file, then the Cookie Extractor, in that order: when the     *)
(* saved key verifies it returns success having read neither the CLI file  *)
(* nor the cookie stores; when the saved key fails verification that error *)
(* is not what decides the return value, and the CLI file and then the     *)
(* extractor are consulted.                                                *)
(***************************************************************************)
C8_InitializeOrder ==
    auth.op = "Initialize" =>
        LET saved == auth.pre.cfgSessionKey
            verr1 == VerifyOutcome(saved, auth.in.resps1)
            x == ExtractSessionKey(auth.in.ext[1], auth.in.ext[2])
        IN  /\ (saved # "" /\ verr1 = nil) =>
                 /\ auth.res.ret = nil
                 /\ auth.res.log = <<"FetchOrganizations">>
                 /\ sessionKey = saved
            /\ (saved # "" /\ verr1 # nil) =>
                 /\ IsPrefix(<<"FetchOrganizations", "ReadCLIFile", "ExtractSessionKey">>,
                             auth.res.log)
                 /\ auth.res.ret = IF x.err # nil THEN ErrAuthFailed
                                   ELSE VerifyOutcome(x.key, auth.in.resps2)
            /\ saved = "" =>
                 IsPrefix(<<"ReadCLIFile", "ExtractSessionKey">>, auth.res.log)

C8_Witness ==
    /\ auth.op = "Initialize"
    /\ auth.pre.cfgSessionKey = "kSaved"
    /\ auth.res.verr1 = ErrSessionExpired
    /\ auth.res.log = <<"FetchOrganizations", "ReadCLIFile", "ExtractSessionKey",
                        "FetchOrganizations">>
    /\ auth.res.ret = nil
    /\ sessionKey = "kBrowser"

(***************************************************************************)
(* C9.  In Initialize, once the saved key is absent or failed: no state of *)
(* the CLI credential file makes Initialize fail; a failure of the Cookie  *)
(* Extractor makes it return AuthFailed; a verification failure after a    *)
(* successful extraction is returned as it is, and the extracted key is    *)
(* then not persisted.                                                     *)
(***************************************************************************)
C9_InitializeFailures ==
    (/\ auth.op = "Initialize"
     /\ HasEvent(auth.res.log, "ReadCLIFile")) =>
        LET x == ExtractSessionKey(auth.in.ext[1], auth.in.ext[2])
            verr2 == VerifyOutcome(x.key, auth.in.resps2)
        IN  /\ x.err # nil =>
                 /\ auth.res.ret = ErrAuthFailed
                 /\ cfgSessionKey = auth.pre.cfgSessionKey
            /\ (x.err = nil /\ verr2 # nil) =>
                 /\ auth.res.ret = verr2
                 /\ auth.res.ret # ErrAuthFailed
                 /\ cfgSessionKey = auth.pre.cfgSessionKey
            /\ (x.err = nil /\ verr2 = nil) =>
                 /\ auth.res.ret = nil
                 /\ cfgSessionKey = x.key

C9_Witness ==
    /\ auth.op = "Initialize"
    /\ auth.in.cli.kind = "badjson"
    /\ auth.pre.cfgSessionKey = "kSaved"
    /\ auth.res.exterr = nil
    /\ auth.res.ret = ErrNoOrgs
    /\ sessionKey = "kBrowser"
    /\ cfgSessionKey = "kSaved"

(***************************************************************************)
(* C10.  The client's session key is always empty or a value of the saved  *)
(* configuration, of the Cookie Extractor or of SetManualSessionKey's      *)
(* argument; reading the CLI credential file changes only the organization *)
(* ID (the client's and the configuration's), and never makes the file's   *)
(* access token the session key.                                           *)
(***************************************************************************)
C10_CliTokenNeverSessionKey ==
    /\ sessionKey \in {"", "kSaved", "kBrowser"} \cup ManualKeys
    /\ cfgSessionKey \in {"", "kSaved", "kBrowser"} \cup ManualKeys
    /\ HasEvent(auth.res.log, "ReadCLIFile") =>
        LET before == auth.res.cliPre
            after == auth.res.cliPost
            cli == auth.in.cli
        IN  /\ after.sessionKey = before.sessionKey
            /\ after.cfgSessionKey = before.cfgSessionKey
            /\ cli.accessToken # "" => after.sessionKey # cli.accessToken
            /\ IF cli.kind = "ok" /\ cli.orgUUID # ""
               THEN after.organizationID = cli.orgUUID
                    /\ after.cfgOrganizationID = cli.orgUUID
               ELSE after = before

C10_Witness ==
    /\ auth.op = "Initialize"
    /\ auth.in.cli.kind = "ok"
    /\ auth.in.cli.orgUUID = "oCli"
    /\ auth.in.cli.accessToken = "sk-ant-oat01"
    /\ auth.res.ret = ErrAuthFailed
    /\ organizationID = "oCli"
    /\ cfgOrganizationID = "oCli"
    /\ sessionKey = "kSaved"

(***************************************************************************)
(* Claims about the polling loop                                           *)
(***************************************************************************)
\* the invocation of the polling goroutine has run to its end
LoopDone == pc[1] = "done" /\ loc[1].caller = "loop" /\ loc[1].fetches = 1

\* C3: in a run of consecutive rate-limited polls the k-th stores a backoff of
\* 30*2^min(k-1,3) seconds, k counting the rate-limited polls since the last
\* poll that was not rate-limited; the stored backoff never exceeds 240 s.
C3_BackoffByRateLimitedRun ==
    /\ (LoopDone /\ loc[1].err = ErrRateLimited) =>
           /\ polls.rateLimited >= 1
           /\ rateLimitBackoff = 30 * 2 ^ Min(polls.rateLimited - 1, 3)
    /\ rateLimitBackoff <= 240

\* C4 as stated: "Connection error - retrying..." is set only by a poll that
\* fails with a generic error and is at least the 3rd generic failure since the
\* last successful fetch; only generic failures increment the counter.
C4_ConnectionErrorOnThirdGeneric ==
    /\ (LoopDone /\ loc[1].posted = StatusConnection) =>
           /\ PollClass(loc[1].err) = "generic"
           /\ polls.generic >= 3
    /\ (pc[1] \in {"idle", "done"}) => consecutiveErrors = polls.generic

\* C4 amended: "Connection error - retrying..." is set only by a poll that fails
\* with a generic error and is at least the 3rd consecutive failed poll, of any
\* class, since the last successful fetch; a failure of any class increments
\* the consecutive-error counter.
C4_ConnectionErrorOnThirdFailure ==
    /\ (LoopDone /\ loc[1].posted = StatusConnection) =>
           /\ PollClass(loc[1].err) = "generic"
           /\ polls.failed >= 3
           /\ loc[1].errCount = polls.failed
    /\ (pc[1] \in {"idle", "done"}) => consecutiveErrors = polls.failed

\* the status is shown by the first generic failure, the third failure in a row
C4_Witness ==
    /\ LoopDone
    /\ loc[1].posted = StatusConnection
    /\ polls.generic = 1
    /\ polls.failed = 3

\* an invocation is in its backoff sleep or its FetchUsage request
Busy(s) == pc[s] \in {"sleep", "fetching"}

\* C5 as stated: at no time are two invocations of fetchUsage in their backoff
\* sleep or their request, whoever called them.
C5_FetchesSequential == Cardinality({s \in Slots : Busy(s)}) <= 1

\* C5 amended: the fetches of the polling loop's ticks are strictly sequential,
\* at no time are two of them in progress; an invocation of refreshNow, of the
\* initial fetch after authentication or of the settings-save refresh can be in
\* progress while another invocation is.
C5_LoopFetchesSequential == Cardinality(InProgressBy("loop")) <= 1

\* a tick's request and the request of a click on "Refresh Now" are both under way
C5_Witness ==
    \E s, t \in Slots :
        /\ s # t
        /\ loc[s].caller = "loop" /\ pc[s] = "fetching"
        /\ loc[t].caller = "refreshNow" /\ pc[t] = "fetching"

\* C6: a poll whose FetchUsage failed with SessionExpired or Unauthorized calls
\* RefreshFromBrowser exactly once; if the refresh failed the overlay's status
\* is the "update key in Settings" message; it makes no second call of
\* FetchUsage, it returns and the loop can start its next tick.
C6_ReauthOnce ==
    /\ (pc[1] = "done" /\ loc[1].err \in {ErrSessionExpired, ErrUnauthorized}) =>
           /\ loc[1].refreshes = 1
           /\ loc[1].fetches = 1
           /\ (loc[1].refreshErr # nil /\ loc[1].err = ErrSessionExpired) =>
                  status = "Session expired - update key in Settings"
           /\ (loc[1].refreshErr # nil /\ loc[1].err = ErrUnauthorized) =>
                  status = "Auth failed - update key in Settings"
           /\ ENABLED Return(1)
    /\ pc[1] = "idle" => ENABLED Tick(1, 0)

\* an Unauthorized poll whose refresh found no cookie
C6_Witness ==
    /\ pc[1] = "done"
    /\ loc[1].err = ErrUnauthorized
    /\ loc[1].refreshes = 1
    /\ loc[1].refreshErr = ErrNoCookieFound
    /\ status = StatusAuthUpdateKey

(***************************************************************************)
(* Claims about the client's preconditions and its classification          *)
(***************************************************************************)
\* C18: FetchUsage returns NoSessionKey when the session key is empty, whether
\* or not an organization ID is set, and NoOrganizationID when the key is set
\* and the organization ID is empty; FetchOrganizations returns NoSessionKey
\* when the key is empty; none of the three makes a request or sleeps.
C18_MissingCredentials ==
    /\ (call.method = "FetchUsage" /\ sessionKey = "") =>
           /\ call.res.err = ErrNoSessionKey
           /\ call.res.requests = 0
           /\ call.res.sleeps = <<>>
    /\ (call.method = "FetchUsage" /\ sessionKey # "" /\ organizationID = "") =>
           /\ call.res.err = ErrNoOrgID
           /\ call.res.requests = 0
           /\ call.res.sleeps = <<>>
    /\ (call.method = "FetchOrganizations" /\ sessionKey = "") =>
           /\ call.res.err = ErrNoSessionKey
           /\ call.res.requests = 0
           /\ call.res.sleeps = <<>>
    /\ (call.method # "none" /\ call.res.requests = 0) =>
           (sessionKey = "" \/ (call.method = "FetchUsage" /\ organizationID = ""))

\* FetchUsage without a session key but with an organization ID
C18_Witness ==
    /\ call.method = "FetchUsage"
    /\ sessionKey = ""
    /\ organizationID # ""
    /\ call.res.err = ErrNoSessionKey
    /\ call.res.requests = 0

\* the answer to the last request of the call
LastResp == call.resps[call.res.requests]

\* C19: an attempt of FetchUsage is classified by the HTTP status: 401 or 403
\* gives SessionExpired when the body's error code is account_session_invalid
\* and Unauthorized otherwise, also when the body cannot be parsed; 429 gives
\* RateLimited; a status >= 500 ServiceUnavailable; another status but 200 a
\* generic status error; 200 with undecodable JSON a parse error.
\* FetchOrganizations classifies 401 and 403 the same way and gives a generic
\* status error for every other status but 200, 429 and 5xx included.
C19_Classification ==
    (call.method # "none" /\ call.res.requests > 0 /\ LastResp.status # 0) =>
        LET st == LastResp.status
            body == LastResp.body
            err == call.res.err
            usage == call.method = "FetchUsage"
        IN  /\ (st \in {401, 403} /\ body = "err_session_invalid") => err = ErrSessionExpired
            /\ (st \in {401, 403} /\ body # "err_session_invalid") => err = ErrUnauthorized
            /\ (usage /\ st = 429) => err = ErrRateLimited
            /\ (usage /\ st >= 500) => err = ErrAPIUnavailable
            /\ (usage /\ st \notin {200, 401, 403, 429} /\ st < 500) =>
                   err = [name |-> "usage endpoint returned", status |-> st]
            /\ (usage /\ st = 200 /\ body = "garbage") => err = ErrParseUsage
            /\ (~usage /\ st \notin {200, 401, 403}) =>
                   err = [name |-> "unexpected status code", status |-> st]
            /\ (~usage /\ st = 200 /\ body # "data") => err = ErrJSON
            /\ (st = 200 /\ body = "data") => err = nil

\* a 403 whose body cannot be parsed, answered to FetchUsage
C19_Witness ==
    /\ call.method = "FetchUsage"
    /\ call.res.requests = 1
    /\ call.resps[1].status = 403
    /\ call.resps[1].body = "garbage"
    /\ call.res.err = ErrUnauthorized

(***************************************************************************)
(* Claims about the organization ID                                        *)
(***************************************************************************)
\* a response that FetchOrganizations decodes
Decodes(resp) == resp.status = 200 /\ resp.body = "data"
\* the list that FetchOrganizations returns from these answers, if it returns one
ServedOrgs(resps) == IF Decodes(resps[1]) THEN resps[1].orgs ELSE resps[2].orgs
ServesList(resps) ==
    \/ Decodes(resps[1])
    \/ /\ Decodes(resps[2])
       /\ resps[1].status \notin {401, 403}

\* the two verifications of Initialize and the one of the other operations
RanFirstVerify ==
    \/ auth.op = "Initialize" /\ auth.pre.cfgSessionKey # ""
    \/ auth.op = "RefreshFromBrowser" /\ auth.res.exterr = nil
    \/ auth.op = "SetManualSessionKey" /\ auth.arg # ""
RanSecondVerify ==
    /\ auth.op = "Initialize"
    /\ HasEvent(auth.res.log, "ExtractSessionKey")
    /\ auth.res.exterr = nil

HighestMet(utilization, thresholds) ==
    LET met == {0} \cup {thresholds[i] : i \in {j \in DOMAIN thresholds :
                                                 thresholds[j] <= utilization}}
    IN  CHOOSE m \in met : \A x \in met : x <= m
FiredFor(metric) == {i \in DOMAIN notified.fired : notified.fired[i].metric = metric}
Evaluated == notified.called /\ notificationsEnabled /\ alertThresholds # <<>>

\* C13: with notifications enabled and a non-empty threshold list, a successful
\* poll sends a notification for a metric if and only if the highest threshold
\* its utilization meets is strictly greater than the metric's record, and at
\* most one per metric; so a metric that stays at a threshold already fired
\* sends nothing more, and one that dropped below it and meets it again sends
\* a second notification.
C13_NotifyOnHigherThreshold ==
    Evaluated =>
        LET sessionCrossed == HighestMet(notified.usage.fiveHour.utilization, alertThresholds)
            weeklyCrossed == HighestMet(notified.usage.sevenDay.utilization, alertThresholds)
        IN  /\ (FiredFor("session") # {}) <=> (sessionCrossed > notified.session)
            /\ (FiredFor("weekly") # {}) <=> (weeklyCrossed > notified.weekly)
            /\ Cardinality(FiredFor("session")) <= 1
            /\ Cardinality(FiredFor("weekly")) <= 1
            /\ \A i \in FiredFor("session") : notified.fired[i].threshold = sessionCrossed
            /\ \A i \in FiredFor("weekly") : notified.fired[i].threshold = weeklyCrossed

\* the session metric met the threshold 50, dropped below it and met it again:
\* two notifications for the same threshold
C13_Witness ==
    /\ Evaluated
    /\ sent = <<Notification("session", 50), Notification("session", 50)>>
    /\ notified.fired = <<Notification("session", 50)>>
    /\ notified.session = 0

\* C14: after an evaluation (notifications enabled, thresholds non-empty) each
\* metric's record is the highest threshold its utilization meets: a decrease
\* lowers the record to the highest threshold still met, 0 only when none is,
\* and the two records are updated independently of each other.
C14_RecordIsHighestMet ==
    Evaluated =>
        /\ lastSessionThreshold = HighestMet(notified.usage.fiveHour.utilization, alertThresholds)
        /\ lastWeeklyThreshold = HighestMet(notified.usage.sevenDay.utilization, alertThresholds)

\* the session record is lowered from 90 to 50 while the weekly record stays at 75
C14_Witness ==
    /\ Evaluated
    /\ notified.session = 90
    /\ lastSessionThreshold = 50
    /\ notified.weekly = 75
    /\ lastWeeklyThreshold = 75
    /\ notified.fired = <<>>

(***************************************************************************)
(* Claims about refreshLoop                                                *)
(***************************************************************************)
\* C11: after every tick the loop is in idle mode if and only if the tick's
\* reading was greater than 300, a reading of 300 being active; the ticker is
\* reset to 300 s exactly on the ticks that switch from active to idle, to the
\* normal interval exactly on those that switch from idle to active, and on no
\* other tick.
C11_IdleMode ==
    tick.n = 1 =>
        LET normal == IF refreshInterval < 15 THEN 15 ELSE refreshInterval
        IN  /\ wasIdle = (tick.idleSec > 300)
            /\ (tick.resets = <<300>>) <=> (~tick.wasIdle /\ tick.idleSec > 300)
            /\ (tick.resets = <<normal>>) <=> (tick.wasIdle /\ tick.idleSec <= 300)
            /\ (tick.resets = <<>>) <=> (tick.wasIdle = (tick.idleSec > 300))
            /\ refreshTimer = IF wasIdle THEN 300 ELSE normal

\* an idle loop whose tick reads exactly 300 switches to active and restores
\* the normal interval, the floor of 15 s
C11_Witness ==
    /\ tick.n = 1
    /\ tick.wasIdle
    /\ tick.idleSec = 300
    /\ ~wasIdle
    /\ tick.resets = <<15>>
    /\ refreshTimer = 15

\* the tick's reading switched the mode
Switched == tick.n = 1 /\ tick.wasIdle # (tick.idleSec > 300)

\* C12 as stated: a tick whose reading switches the mode makes one call of
\* fetchUsage more than a tick that does not switch it.
C12_ExtraFetchOnSwitch ==
    Switched => tick.fetches = TickFetches(0, FALSE) + 1

\* C12 amended: every tick makes exactly one call of fetchUsage, whether its
\* reading switches the mode or not; a switching tick makes no extra call.
C12_OneFetchPerTick ==
    tick.n = 1 =>
        /\ tick.fetches = 1
        /\ Cardinality(InProgressBy("loop")) <= 1

\* a tick that switched to idle with its one call under way
C12_Witness ==
    /\ Switched
    /\ wasIdle
    /\ tick.fetches = 1
    /\ pc[1] = "fetching"
    /\ loc[1].caller = "loop"

\* C15: once the stop signal is raised the loop exits at its next wait and
\* starts no other call of fetchUsage, also when a tick is pending.
C15_NoTickAfterStop == ~tick.stopped

(***************************************************************************)
(* Claims about polls without credentials and after failures               *)
(***************************************************************************)
\* what a fetchUsage that finds no credentials is to leave alone
SkipFrame ==
    <<consecutiveErrors, rateLimitBackoff, lastSessionThreshold, lastWeeklyThreshold,
      lastUsage, status>>

C17_SkipWithoutCredentials ==
    [][/\ (pc[1] = "idle" /\ pc'[1] # "idle" /\ (sessionKey = "" \/ organizationID = "")) =>
           /\ pc'[1] = "done"
           /\ loc'[1].fetches = 0
           /\ loc'[1].slept = 0
           /\ UNCHANGED SkipFrame
       /\ (pc[1] = "done" /\ loc[1].fetches = 0 /\ pc'[1] # "done") =>
           /\ pc'[1] = "idle"
           /\ UNCHANGED SkipFrame]_vars

\* a skipped poll with a backoff pending, failures counted, a status shown, a
\* snapshot cached and a threshold recorded
C17_Witness ==
    /\ pc[1] = "done"
    /\ loc[1].fetches = 0
    /\ sessionKey = ""
    /\ rateLimitBackoff > 0
    /\ consecutiveErrors > 0
    /\ status # ""
    /\ lastUsage.set
    /\ lastSessionThreshold > 0

(***************************************************************************)
(* Claims about the configuration file                                     *)
(***************************************************************************)
\* the key that the operation verified last, from its inputs
VerifiedKey ==
    IF auth.op = "SetManualSessionKey" THEN auth.arg
    ELSE IF auth.op = "Initialize" /\ ~RanSecondVerify THEN auth.pre.cfgSessionKey
    ELSE "kBrowser"
\* the operation's last verification got a list of organizations from the server
VerificationSucceeded ==
    /\ auth.op # "none"
    /\ RanFirstVerify \/ RanSecondVerify
    /\ VerifiedKey # ""
    /\ LET resps == IF RanSecondVerify THEN auth.in.resps2 ELSE auth.in.resps1
       IN  ServesList(resps) /\ ServedOrgs(resps) # <<>>
AllWritesFail == auth.pre.writes # <<>> /\ \A i \in DOMAIN auth.pre.writes : ~auth.pre.writes[i]

\* C21: when the verification of Initialize, SetManualSessionKey or
\* RefreshFromBrowser succeeds, the operation returns success and the client
\* holds the verified session key and the first organization of the list,
\* whatever the outcomes of the writes of the configuration file, also when
\* every one of them fails.
C21_PersistenceFailuresIgnored ==
    VerificationSucceeded =>
        LET resps == IF RanSecondVerify THEN auth.in.resps2 ELSE auth.in.resps1
        IN  /\ auth.res.ret = nil
            /\ sessionKey = VerifiedKey
            /\ organizationID = ServedOrgs(resps)[1]

\* RefreshFromBrowser succeeded with a new key and organization while both of
\* its writes failed: the file still holds the saved credentials
C21_Witness ==
    /\ auth.op = "RefreshFromBrowser"
    /\ VerificationSucceeded
    /\ AllWritesFail
    /\ auth.res.ret = nil
    /\ sessionKey = "kBrowser" /\ organizationID = "o2"
    /\ disk = [sessionKey |-> "kSaved", organizationID |-> "oSaved"]

\* the thresholds of the list that the utilization meets
Met(utilization, thresholds) ==
    {thresholds[i] : i \in {j \in DOMAIN thresholds : thresholds[j] <= utilization}}

\* C22: highestCrossedThreshold(u, T) is the greatest t of T with t <= u, and 0
\* when no t of T is at most u; T may be empty, unordered or hold duplicates.
C22_HighestCrossedThreshold ==
    crossing.called =>
        LET met == Met(crossing.utilization, crossing.thresholds)
        IN  crossing.highest = IF met = {} THEN 0
                               ELSE CHOOSE m \in met : \A x \in met : x <= m

(***************************************************************************)
(* Claims about the rate-limit backoff                                     *)
(***************************************************************************)
\* C23: the backoff B that a rate-limited poll stores is slept by the next
\* invocation of fetchUsage that runs while authenticated, after it reset the
\* pending backoff and before it sends its request; so no request of FetchUsage
\* is sent after a rate-limited result until an invocation has slept B.
C23_NoRequestBeforeBackoffElapsed ==
    \A s \in Slots :
        pc[s] \in {"fetching", "classify", "refresh", "done"} /\ loc[s].fetches = 1 =>
            /\ loc[s].slept = loc[s].backoff
            /\ ~loc[s].early

(***************************************************************************)
(* Claims about the success path of fetchUsage                             *)
(***************************************************************************)
\* C24: a poll whose FetchUsage succeeded first has the consecutive-error
\* counter and the pending backoff at zero, then the snapshot handed to the
\* overlay and the tray, then the thresholds evaluated on that snapshot, each
\* once and in that order; a poll whose FetchUsage failed does none of the three.
C24_SuccessOrder ==
    /\ pc[1] = "present" =>
           /\ consecutiveErrors = 0 /\ rateLimitBackoff = 0
           /\ loc[1].steps = <<"reset">>
    /\ pc[1] = "notify" =>
           /\ consecutiveErrors = 0 /\ rateLimitBackoff = 0
           /\ status = StatusNone
           /\ loc[1].steps = <<"reset", "present">>
    /\ (pc[1] = "done" /\ loc[1].fetches = 1 /\ loc[1].err = nil) =>
           /\ loc[1].steps = <<"reset", "present", "notify">>
           /\ notified.called /\ notified.usage = loc[1].usage
           /\ lastUsage = [set |-> TRUE, usage |-> loc[1].usage]
    /\ (pc[1] \in {"classify", "refresh", "done"} /\ loc[1].err # nil) =>
           /\ loc[1].steps = <<>>
           /\ consecutiveErrors > 0
           /\ loc[1].posted # StatusNone

\* a poll succeeded after two failed ones, one of them rate-limited: the counter
\* and the backoff are zero again and the notification for the threshold 75 is out
C24_Witness ==
    /\ pc[1] = "done"
    /\ loc[1].err = nil /\ loc[1].fetches = 1
    /\ loc[1].slept > 0
    /\ consecutiveErrors = 0 /\ rateLimitBackoff = 0
    /\ status = StatusNone
    /\ notified.fired = <<Notification("session", 75)>>

\* C25: a stored backoff is found pending, and then slept, by at most one
\* invocation of fetchUsage, and the backoff that an invocation resets is the one
\* it read (no other invocation reset or stored one in between), whatever the
\* interleaving of the loop's tick with refreshNow and the settings-save refresh.
C25_BackoffReadResetAtomic ==
    /\ limited.readers <= 1
    /\ \A s \in Slots : pc[s] = "consume" => rateLimitBackoff = loc[s].backoff

(***************************************************************************)
(* Claims about the installed session key                                  *)
(***************************************************************************)
\* C26: between the calls of the AuthManager, a client that IsAuthenticated
\* holds a session key that passed verify-and-fetch since it was installed:
\* either the last call succeeded, or it failed without running a verification
\* and left the key of an already authenticated client in place.  So after a
\* failed Initialize or RefreshFromBrowser the client holds no unverified or
\* rejected key together with an organization ID.
C26_AuthenticatedKeyVerified ==
    (auth.op # "none" /\ IsAuthenticated(Creds)) =>
        \/ auth.res.ret = nil
        \/ /\ IsAuthenticated(auth.pre)
           /\ sessionKey = auth.pre.sessionKey
           /\ ~HasEvent(auth.res.log, "FetchOrganizations")

(***************************************************************************)
(* Claims about the ticker's period                                        *)
(***************************************************************************)
\* C27: whenever no poll is under way, the ticker's period is 300 s while
\* refreshLoop is in idle mode and the configured refresh interval, at least
\* 15 s, while it is in active mode, whatever ticks and saves of the settings
\* came before.
C27_TimerPeriod ==
    pc[1] = "idle" =>
        refreshTimer = IF wasIdle THEN 300
                       ELSE IF refreshInterval < 15 THEN 15 ELSE refreshInterval

(***************************************************************************)
(* Claims about the client's cache                                         *)
(***************************************************************************)
MetricLabels ==
    [fiveHour |-> "5-Hour", sevenDay |-> "Weekly", sevenDayOpus |-> "Opus",
     sevenDaySonnet |-> "Sonnet"]

\* the answer a successful FetchUsage decoded: the first one unless it failed
Decoded ==
    IF call.resps[1].status = 200 /\ call.resps[1].body # "garbage"
    THEN call.resps[1] ELSE call.resps[2]

\* C28: a successful FetchUsage replaces the cached snapshot wholesale with the
\* one decoded from the response (a metric the response leaves out is zero in
\* the cache, with an empty label and no reset time, whatever the previous
\* snapshot held) and sets the last-fetch time to the clock; a FetchUsage that
\* fails leaves the snapshot and the last-fetch time as they were.
C28_CacheReplacedWholesale ==
    call.method = "FetchUsage" =>
        IF call.res.err = nil
        THEN /\ lastUsage.set
             /\ lastFetch = call.now
             /\ lastFetch # call.before.lastFetch
             /\ \A m \in DOMAIN MetricLabels :
                  IF Decoded.body = "data" /\ Decoded.usage[m].present
                  THEN /\ lastUsage.usage[m].utilization = Decoded.usage[m].utilization
                       /\ lastUsage.usage[m].label = MetricLabels[m]
                  ELSE lastUsage.usage[m] = [utilization |-> 0, resetsAt |-> 0, label |-> ""]
        ELSE /\ lastUsage = call.before.lastUsage
             /\ lastFetch = call.before.lastFetch

\* a response without the weekly metric arrived over a snapshot that had it
C28_Witness ==
    /\ call.method = "FetchUsage"
    /\ call.res.err = nil
    /\ call.before.lastUsage.set
    /\ call.before.lastUsage.usage.sevenDay.label = "Weekly"
    /\ ~Decoded.usage.sevenDay.present
    /\ Decoded.usage.fiveHour.present
    /\ lastUsage.usage.sevenDay.label = ""
    /\ lastUsage.usage.fiveHour.label = "5-Hour"

(***************************************************************************)
(* Claims about the end of the application and the overlay's visibility    *)
(***************************************************************************)
\* C29: over any sequence of quits and of the cleanup after the event loop, the
\* stop channel is closed exactly once and the hotkey listener is stopped at
\* most once: from the first shutdown on the application is stopped, and no
\* later shutdown closes or stops anything again.
C29_ShutdownOnce ==
    /\ closes <= 1
    /\ hotkeyMgr.stops <= 1
    /\ shutdowns >= 1 =>
         /\ closes = 1
         /\ stopChan = "closed"
         /\ ~running
         /\ ~hotkeyMgr.running

\* "Quit" was clicked twice and the cleanup ran after the event loop
C29_Witness ==
    /\ shutdowns = 3
    /\ eventLoop = "cleaned"
    /\ closes = 1
    /\ exited

\* C30: the tray's overlay-shown flag, the overlay window's visible flag and the
\* OverlayEnabled setting agree, from any saved configuration and after any
\* tray toggles, snap hotkeys and show/hide callbacks (so that a tray toggle
\* always changes the overlay's visibility).
C30_OverlayFlagsAgree ==
    /\ ui.overlayShown = ui.overlay.visible
    /\ ui.overlay.visible = ui.config.OverlayEnabled
====
